---- MODULE Spec2Model ----
(***************************************************************************)
(* Verification model of the Verax / Axiom cost-based optimizer.          *)
(*                                                                         *)
(* The module holds state machines over disjoint groups of variables:     *)
(*   - the physical plan emitter (Optimization::toVeloxPlan, makeFragment, *)
(*     makeOrderBy, filterUpdated) of optimizer/ToVelox.cpp;               *)
(*   - the memoised join-order search (PlanState, PlanSet, makeJoins,      *)
(*     makePlan) declared in axiom/optimizer/Plan.h.                       *)
(* Further machines model the construction of logical plan nodes           *)
(* (logical_plan/LogicalPlanNode.cpp), the History saved to and loaded     *)
(* from a file (axiom/optimizer/Cost.cpp), the costing of a plan in        *)
(* floating point (the setCost functions of axiom/optimizer/Cost.cpp),     *)
(* the marking of accessed subfields of a logical plan                     *)
(* (axiom/optimizer/Subfields.cpp), the scan of a map column as a struct   *)
(* (optimizer/ToVelox.cpp), a PlanState under PlanStateSavers, the filters *)
(* of a base table handed to the connector, and the statistics of a        *)
(* connector Column used by several threads (ConnectorMetadata.h).         *)
(* Each machine has its own specification; the variables of the other      *)
(* machines stay at their initial value.                                   *)
(***************************************************************************)
EXTENDS Integers, Sequences, FiniteSets, TLC

VARIABLES
  \* ---- emitter (Optimization instance used for toVeloxPlan) ----
  connector,      \* behaviour of the connector's createTableHandle
  subfieldFilter, \* outcome of exec::toSubfieldFilter per column filter
  argOrder,       \* order in which the build evaluates call arguments
  rootLimit,      \* root_->limit
  rootOffset,     \* root_->offset
  leafHandles,    \* Optimization::leafHandles_
  veloxPlan,      \* what toVeloxPlan returned (or the error it raised)
  \* ---- search (one Optimization, one derived table being planned) ----
  dt,             \* the derived table being planned
  state,          \* PlanState of the running enumeration
  stack,          \* pending makeJoins calls (depth-first recursion)
  catalog,        \* cardinalities and join fanouts the search is costed with
  memo,           \* Optimization::memo_
  pruned,         \* partial plans abandoned by the cutoff
  lastPlan,       \* result of the latest makePlan call
  numEnumerations, \* per MemoKey, how many enumerations were run
  \* ---- logical plan construction (logical_plan/LogicalPlanNode.cpp) ----
  planNodes,      \* output names of the logical plan nodes constructed
  constructed,    \* the latest constructor call and its outcome
  \* ---- History (History::saveToFile, History::updateFromFile) ----
  history,        \* the entries of the History the optimizer records into
  file,           \* the JSON documents in the file at the path saved to
  saved,          \* the entries 'history' had when it was saved last
  loaded,         \* the History that updateFromFile loads the file into
  \* ---- costing a plan bottom up (the setCost functions of Cost.cpp) ----
  planCost,       \* PlanState::cost of the partial plan costed so far
  placed,         \* the RelationOps placed so far, each with its cost_
  \* ---- subfield marking (ToGraph::markAllSubfields) ----
  markedPlan,       \* the logical plan markAllSubfields was called with
  marking,          \* argFields of both PlanSubfields, the local steps, the calls made
  controlSubfields, \* <<node, ordinal, path>> marked as control
  payloadSubfields, \* <<node, ordinal, path>> marked as payload
  \* ---- subfield pushdown of a map column (subfieldPushdownScanType) ----
  scanColumn,     \* the map column of the BaseTable scanned and its live paths
  scanResult,     \* its type in the scan, its pushed down subfields and getters
  \* ---- a PlanState under PlanStateSavers ----
  scoped,         \* the PlanState
  savers,         \* the PlanStateSavers alive, the innermost last
  \* ---- one connector Column used by several threads ----
  statsColumn,    \* latestStats_, allStats_ and the owner of mutex_
  callers,        \* per thread: the call it makes, where it is, what it got
  \* ---- one BaseTable whose filters changed (filterUpdated) ----
  baseTable,      \* its columnFilters, its filter and what toSubfieldFilter does
  tableHandle     \* the filters createTableHandle got and the handle recorded

emitVars == <<connector, subfieldFilter, argOrder, rootLimit, rootOffset,
              leafHandles, veloxPlan>>
searchVars == <<catalog, dt, state, stack, memo, pruned, lastPlan,
                numEnumerations>>
logicalVars == <<planNodes, constructed>>
historyVars == <<history, file, saved, loaded>>
costVars == <<planCost, placed>>
subfieldVars == <<markedPlan, marking, controlSubfields, payloadSubfields>>
pushdownVars == <<scanColumn, scanResult>>
saverVars == <<scoped, savers>>
statsVars == <<statsColumn, callers>>
filterVars == <<baseTable, tableHandle>>
restVars == <<logicalVars, historyVars, costVars, subfieldVars, pushdownVars,
              saverVars, statsVars, filterVars>>
vars == <<emitVars, searchVars, restVars>>

\* What a machine leaves alone besides the emitter and the search.
othersThanLogical ==
  <<historyVars, costVars, subfieldVars, pushdownVars, saverVars, statsVars,
    filterVars>>
othersThanHistory ==
  <<logicalVars, costVars, subfieldVars, pushdownVars, saverVars, statsVars,
    filterVars>>
othersThanCost ==
  <<logicalVars, historyVars, subfieldVars, pushdownVars, saverVars, statsVars,
    filterVars>>
othersThanSubfields ==
  <<logicalVars, historyVars, costVars, pushdownVars, saverVars, statsVars,
    filterVars>>
othersThanPushdown ==
  <<logicalVars, historyVars, costVars, subfieldVars, saverVars, statsVars,
    filterVars>>
othersThanSaver ==
  <<logicalVars, historyVars, costVars, subfieldVars, pushdownVars, statsVars,
    filterVars>>
othersThanStats ==
  <<logicalVars, historyVars, costVars, subfieldVars, pushdownVars, saverVars,
    filterVars>>
othersThanFilters ==
  <<logicalVars, historyVars, costVars, subfieldVars, pushdownVars, saverVars,
    statsVars>>

\* The machines other than the emitter and the search have not run.
NotConstructed == [kind |-> "none"]
LogicalIdle ==
  /\ planNodes = {}
  /\ constructed = NotConstructed

\* A History without entries; nothing was loaded yet.
EmptyHistory == [fingerprint \in {} |-> 0]
NotLoaded == [made |-> FALSE]
HistoryIdle ==
  /\ history = EmptyHistory
  /\ file = <<>>
  /\ saved = EmptyHistory
  /\ loaded = NotLoaded

\* A float: not a number, infinite, or the fraction num / den in lowest terms.
NaN == [kind |-> "nan"]
Inf == [kind |-> "inf"]
RECURSIVE GCD(_, _)
GCD(a, b) == IF b = 0 THEN a ELSE GCD(b, a % b)
Num(num, den) ==
  LET g == GCD(IF num < 0 THEN -num ELSE num, den)
  IN [kind |-> "num", num |-> num \div g, den |-> den \div g]
Zero == Num(0, 1)
One == Num(1, 1)

\* The Cost a RelationOp or a PlanState is constructed with.
NoCost ==
  [inputCardinality |-> One, fanout |-> One, unitCost |-> Zero,
   totalBytes |-> Zero, transferBytes |-> Zero]
CostIdle ==
  /\ planCost = NoCost
  /\ placed = <<>>

NotMarked == [kind |-> "none"]
NoMarking == [controlArgs |-> {}, payloadArgs |-> {}, steps |-> <<>>, calls |-> 0]
SubfieldsIdle ==
  /\ markedPlan = NotMarked
  /\ marking = NoMarking
  /\ controlSubfields = {}
  /\ payloadSubfields = {}

NotScanned == [made |-> FALSE]
PushdownIdle ==
  /\ scanColumn = NotScanned
  /\ scanResult = NotScanned

NoSavers == [active |-> FALSE]
SaverIdle ==
  /\ scoped = NoSavers
  /\ savers = <<>>

NoColumn == [made |-> FALSE]
StatsIdle ==
  /\ statsColumn = NoColumn
  /\ callers = <<>>

NoTable == [made |-> FALSE]
FiltersIdle ==
  /\ baseTable = NoTable
  /\ tableHandle = NoTable

RestIdle ==
  /\ LogicalIdle
  /\ HistoryIdle
  /\ CostIdle
  /\ SubfieldsIdle
  /\ PushdownIdle
  /\ SaverIdle
  /\ StatsIdle
  /\ FiltersIdle

(***************************************************************************)
(* Generic helpers.                                                        *)
(***************************************************************************)
Range(s) == {s[i] : i \in DOMAIN s}

\* Body applied to 'value', which is evaluated once however often Body uses it.
WithValue(value, Body(_)) == CHOOSE out \in { Body(v) : v \in {value} } : TRUE

Max(a, b) == IF a >= b THEN a ELSE b

(***************************************************************************)
(* Expressions.  Exprs are interned per query, so structural equality is   *)
(* pointer equality.                                                       *)
(***************************************************************************)
Col(n) == [type |-> "kColumn", name |-> n, args |-> <<>>]
Call(n, a) == [type |-> "kCall", name |-> n, args |-> a]
Literal(v) == [type |-> "kLiteral", name |-> v, args |-> <<>>]

NullExpr == [kind |-> "null", name |-> "", inputs |-> <<>>]

RECURSIVE toTypedExpr(_)
toTypedExpr(expr) ==
  IF expr.type = "kColumn"
    THEN [kind |-> "FieldAccess", name |-> expr.name, inputs |-> <<>>]
  ELSE IF expr.type = "kLiteral"
    THEN [kind |-> "Constant", name |-> expr.name, inputs |-> <<>>]
    ELSE [kind |-> "Call", name |-> expr.name,
          inputs |-> [i \in DOMAIN expr.args |-> toTypedExpr(expr.args[i])]]

AndExpr(a, b) == [kind |-> "Call", name |-> "and", inputs |-> <<a, b>>]

RECURSIVE AndTyped(_, _)
AndTyped(result, conjuncts) ==
  IF conjuncts = <<>> THEN result
  ELSE AndTyped(IF result = NullExpr THEN Head(conjuncts)
                ELSE AndExpr(result, Head(conjuncts)),
                Tail(conjuncts))

toAnd(exprs) == AndTyped(NullExpr, [i \in DOMAIN exprs |-> toTypedExpr(exprs[i])])

\* The leaf conjuncts a typed filter is made of.
RECURSIVE Conjuncts(_)
Conjuncts(e) ==
  IF e = NullExpr THEN {}
  ELSE IF e.kind = "Call" /\ e.name = "and"
    THEN Conjuncts(e.inputs[1]) \cup Conjuncts(e.inputs[2])
    ELSE {e}

(***************************************************************************)
(* Base tables of the query graph and the connector.                       *)
(***************************************************************************)
BaseTables == {1, 2}

\* BaseTable::columnFilters: single-column filters, candidates for pushdown.
columnFilters(table) ==
  IF table = 1 THEN <<Call("f1", <<Col("a")>>)>> ELSE <<>>

\* BaseTable::filter: the multi-column filters of the table.
tableFilter(table) ==
  IF table = 1 THEN <<Call("g1", <<Col("a"), Col("b")>>)>> ELSE <<>>

tableColumns(table) ==
  IF table = 1 THEN <<Col("a"), Col("b")>>
  ELSE IF table = 2 THEN <<Col("c")>>
  ELSE <<Col("d")>>

FilterNames == {"f1", "g1"}
ColumnFilterNames == {"f1"}

\* ConnectorMetadata::createTableHandle is abstract: the connector decides
\* which filters it cannot evaluate.  'unsupported' is the set of conjuncts
\* the target system does not support; a filter that contains one of them is
\* returned in rejectedFilters.
createTableHandle(unsupported, filters) ==
  [handle |-> TRUE,
   rejectedFilters |->
     SelectSeq(filters,
               LAMBDA f : \E c \in Conjuncts(f) : c.name \in unsupported)]

NoHandle == [handle |-> FALSE, rejectedFilters |-> <<>>]

\* Optimization::leafHandle
leafHandle(handles, id) == handles[id]

\* Optimization::setLeafHandle
setLeafHandle(handles, id, handle, extraFilters) ==
  [handles EXCEPT ![id] = [handle |-> handle, rejectedFilters |-> extraFilters]]

\* filterUpdated(table, updateSelectivity): builds the filter list that is
\* handed to the connector and records the handle with the rejected filters.
typedExprs(exprs) == [i \in DOMAIN exprs |-> toTypedExpr(exprs[i])]

pushdownConjuncts(filters, outcome) ==
  SelectSeq(typedExprs(filters), LAMBDA e : outcome[e.name] = "subfield")

\* A variant in which a column filter whose conversion throws is given up.
remainingConjuncts_Caught(filters, filter, outcome) ==
  SelectSeq(typedExprs(filters), LAMBDA e : outcome[e.name] = "none")
    \o typedExprs(filter)

remainingConjuncts(filters, filter, outcome) ==
  SelectSeq(typedExprs(filters), LAMBDA e : outcome[e.name] # "subfield")
    \o typedExprs(filter)

allFilters(filters, filter, outcome) ==
  LET remainingFilter ==
        AndTyped(NullExpr, remainingConjuncts(filters, filter, outcome))
  IN pushdownConjuncts(filters, outcome) \o
       (IF remainingFilter # NullExpr THEN <<remainingFilter>> ELSE <<>>)

filterUpdated(handles, table, outcome, unsupported) ==
  LET made == createTableHandle(unsupported,
                allFilters(columnFilters(table), tableFilter(table), outcome))
  IN setLeafHandle(handles, table, made.handle, made.rejectedFilters)


(***************************************************************************)
(* RelationOps: the physical operator tree handed to toVeloxPlan.          *)
(***************************************************************************)
Distribution(isGather, isBroadcast, partition, order, orderType) ==
  [isGather |-> isGather, isBroadcast |-> isBroadcast, partition |-> partition,
   order |-> order, orderType |-> orderType]

\* Distribution::gather(type, order, orderType)
gatherDistribution(order, orderType) ==
  Distribution(TRUE, FALSE, <<>>, order, orderType)

TableScan(table) ==
  [relType |-> "kTableScan", inputs |-> <<>>, table |-> table,
   distribution |-> Distribution(FALSE, FALSE, <<>>, <<>>, <<>>),
   columns |-> tableColumns(table),
   \* the columns of table 2 are leaf columns of a pushed down subfield
   hasTopColumn |-> (table = 2)]

Filter(input, exprs) ==
  [relType |-> "kFilter", inputs |-> <<input>>, exprs |-> exprs,
   distribution |-> input.distribution, columns |-> input.columns]

Project(input, exprs, columns) ==
  [relType |-> "kProject", inputs |-> <<input>>, exprs |-> exprs,
   distribution |-> input.distribution, columns |-> columns]

Repartition(input, distribution, columns) ==
  [relType |-> "kRepartition", inputs |-> <<input>>,
   distribution |-> distribution, columns |-> columns]

OrderBy(input, distribution) ==
  [relType |-> "kOrderBy", inputs |-> <<input>>,
   distribution |-> distribution, columns |-> input.columns]

HashBuild(input, keys) ==
  [relType |-> "kHashBuild", inputs |-> <<input>>, keys |-> keys,
   distribution |-> input.distribution, columns |-> input.columns]

Join(method, left, right, leftKeys, rightKeys, filter) ==
  [relType |-> "kJoin", inputs |-> <<left, right>>, method |-> method,
   leftKeys |-> leftKeys, rightKeys |-> rightKeys, exprs |-> filter,
   distribution |-> left.distribution,
   columns |-> left.columns \o right.columns]

Limit(input, offset, limit) ==
  [relType |-> "kLimit", inputs |-> <<input>>, offset |-> offset,
   limit |-> limit,
   distribution |-> gatherDistribution(input.distribution.order,
                                       input.distribution.orderType),
   columns |-> input.columns]

\* An aggregate function call of an Aggregation: 'condition' is empty or holds
\* the one FILTER expr of the aggregate.
Aggregate(name, args, condition) ==
  [type |-> "kAggregate", name |-> name, args |-> args, condition |-> condition]

\* Aggregation: 'columns' are the grouping columns followed by one column per
\* aggregate.
Aggregation(input, step, grouping, aggregates, columns) ==
  [relType |-> "kAggregation", inputs |-> <<input>>, step |-> step,
   grouping |-> grouping, aggregates |-> aggregates,
   distribution |-> input.distribution, columns |-> columns]

\* RelationOp::cost(): the Cost the search attached to the operator.  The
\* emitter only copies it, so it is identified by the operator it belongs to.
opCost(op) == [relType |-> op.relType, columns |-> op.columns]

(***************************************************************************)
(* TempProjections: translates exprs to field references over the input,   *)
(* adding one projected channel per distinct non-column expr.              *)
(***************************************************************************)
TempProjections(input) ==
  [exprChannel |-> input.columns,
   names |-> [i \in DOMAIN input.columns |-> input.columns[i].name],
   exprs |-> [i \in DOMAIN input.columns |-> toTypedExpr(input.columns[i])],
   numInput |-> Len(input.columns),
   failed |-> FALSE]

channelOf(projections, expr) ==
  IF \E i \in DOMAIN projections.exprChannel : projections.exprChannel[i] = expr
    THEN CHOOSE i \in DOMAIN projections.exprChannel :
           projections.exprChannel[i] = expr
    ELSE 0

\* toFieldRef without the lookup of an expr translated before: every call with
\* a non-column expr adds a channel.
toFieldRef_NoLookup(projections, expr) ==
  IF expr.type = "kColumn"
    THEN IF channelOf(projections, expr) # 0 THEN projections
         ELSE [projections EXCEPT !.failed = TRUE]
  ELSE [projections EXCEPT
          !.exprChannel = Append(@, expr),
          !.exprs = Append(@, toTypedExpr(expr)),
          !.names = Append(@, "__r" \o ToString(Len(projections.exprChannel)))]

\* TempProjections::toFieldRef: the state of the projections after the call.
toFieldRef(projections, expr) ==
  IF channelOf(projections, expr) # 0 THEN projections
  ELSE IF expr.type = "kColumn" THEN [projections EXCEPT !.failed = TRUE]
  ELSE [projections EXCEPT
          !.exprChannel = Append(@, expr),
          !.exprs = Append(@, toTypedExpr(expr)),
          !.names = Append(@, "__r" \o ToString(Len(projections.exprChannel)))]

\* The name of the field reference toFieldRef returns.
fieldRefName(projections, expr) ==
  LET after == toFieldRef(projections, expr)
  IN IF after.failed THEN "" ELSE after.names[channelOf(after, expr)]

RECURSIVE toFieldRefs(_, _)
toFieldRefs(projections, exprs) ==
  IF exprs = <<>> THEN [projections |-> projections, refs |-> <<>>]
  ELSE LET after == toFieldRef(projections, Head(exprs))
           rest == toFieldRefs(after, Tail(exprs))
       IN [projections |-> rest.projections,
           refs |-> <<fieldRefName(projections, Head(exprs))>> \o rest.refs]

needsProject(projections) == Len(projections.exprChannel) # projections.numInput


(***************************************************************************)
(* The emitted plan: ExecutableFragments holding velox PlanNode trees.     *)
(* A task prefix "stage<n>" is represented by n; the top fragment keeps    *)
(* the empty prefix, represented by 0.                                     *)
(***************************************************************************)
NullNode == [kind |-> "null", id |-> -1, sources |-> <<>>]

ExecutableFragment ==
  [taskPrefix |-> 0, width |-> 0, inputStages |-> <<>>, scans |-> <<>>,
   planNode |-> NullNode, numBroadcastDestinations |-> 0]

\* The members of Optimization that lowering reads and writes, and the
\* 'stages' vector threaded through makeFragment.
EmitContext(handles, opts, order, limit, offset, outcome, unsupported) ==
  [stages |-> <<>>, stageCounter |-> 0, nextId |-> 0, costEstimates |-> {},
   toVeloxLimit |-> -1, toVeloxOffset |-> 0, leafHandles |-> handles,
   options |-> opts, argOrder |-> order, rootLimit |-> limit,
   rootOffset |-> offset, subfieldFilter |-> outcome,
   connector |-> unsupported, error |-> ""]

\* PlanNodeIdGenerator::next
idGeneratorNext(ctx) == [ctx EXCEPT !.nextId = @ + 1]

\* Optimization::recordPlanNodeEstimate
recordPlanNodeEstimate(ctx, id, cost, role) ==
  [ctx EXCEPT !.costEstimates = @ \cup {[id |-> id, role |-> role, cost |-> cost]}]

\* Optimization::nextId(op): a fresh id with the op's cost recorded under it.
nextId(ctx, op) ==
  recordPlanNodeEstimate(idGeneratorNext(ctx), ctx.nextId, opCost(op), "")

\* TempProjections::maybeProject: the node, and the context after the call.
maybeProject(projections, inputNode, ctx) ==
  IF ~needsProject(projections)
    THEN [node |-> inputNode, ctx |-> ctx]
    ELSE [node |-> [kind |-> "Project", id |-> ctx.nextId,
                    names |-> projections.names, exprs |-> projections.exprs,
                    sources |-> <<inputNode>>],
          ctx |-> idGeneratorNext(ctx)]

\* createPartitionFunctionSpec that looks at the keys before isBroadcast.
createPartitionFunctionSpec_KeysFirst(keys, isBroadcast) ==
  IF keys = <<>> THEN "gather"
  ELSE IF isBroadcast THEN "broadcast"
  ELSE "hash"

\* createPartitionFunctionSpec
createPartitionFunctionSpec(keys, isBroadcast) ==
  IF isBroadcast THEN "broadcast"
  ELSE IF keys = <<>> THEN "gather"
  ELSE "hash"

sortOrders(orderType) ==
  [i \in DOMAIN orderType |->
     IF orderType[i] = "kAscNullsFirst" THEN [ascending |-> TRUE, nullsFirst |-> TRUE]
     ELSE IF orderType[i] = "kAscNullsLast" THEN [ascending |-> TRUE, nullsFirst |-> FALSE]
     ELSE IF orderType[i] = "kDescNullsFirst" THEN [ascending |-> FALSE, nullsFirst |-> TRUE]
     ELSE [ascending |-> FALSE, nullsFirst |-> FALSE]]

Failed(fragment, ctx, message) ==
  [node |-> NullNode, fragment |-> fragment,
   ctx |-> [ctx EXCEPT !.error = message]]


(***************************************************************************)
(* Lowering of one RelationOp tree into fragments.                         *)
(***************************************************************************)
\* Limits are int64 in the program; the model keeps the two's complement
\* width as a parameter so that offset + limit can exceed the maximum.
LimitBits == 4
kMaxLimit == 2 ^ (LimitBits - 1) - 1

\* offset + limit in two's complement of LimitBits bits.
saturatingAdd_Wrapping(a, b) ==
  ((a + b + kMaxLimit + 1) % (2 ^ LimitBits)) - (kMaxLimit + 1)

\* offset + limit, saturating at the maximum.
saturatingAdd(a, b) == IF a + b > kMaxLimit THEN kMaxLimit ELSE a + b

\* stages_.push_back at the start of the list.
pushStage_Front(stages, source) == <<source>> \o stages

\* stages_.push_back(std::move(source)): a finished source fragment joins the
\* list of stages.
pushStage(stages, source) == Append(stages, source)

\* A LimitNode that skips no rows.
LimitNode_NoOffset(id, offset, count, isPartial, source) ==
  [kind |-> "Limit", id |-> id, offset |-> 0, count |-> count,
   isPartial |-> isPartial, sources |-> <<source>>]

\* velox::core::LimitNode(id, offset, count, isPartial, source).
LimitNode(id, offset, count, isPartial, source) ==
  [kind |-> "Limit", id |-> id, offset |-> offset, count |-> count,
   isPartial |-> isPartial, sources |-> <<source>>]

\* The RelType::kTableScan case of makeFragment.
makeTableScan(op, fragment, ctx) ==
  LET id == op.table
      handles == IF ~leafHandle(ctx.leafHandles, id).handle
                   THEN filterUpdated(ctx.leafHandles, id, ctx.subfieldFilter,
                                      ctx.connector)
                   ELSE ctx.leafHandles
      handlePair == leafHandle(handles, id)
      ctx1 == nextId([ctx EXCEPT !.leafHandles = handles], op)
      scanNode == [kind |-> "TableScan", id |-> ctx.nextId, table |-> id,
                   sources |-> <<>>]
      fragment1 == [fragment EXCEPT !.scans = Append(@, scanNode.id)]
  IN IF handlePair.rejectedFilters # <<>>
       THEN Failed(fragment, ctx1, "Expecting no rejected filters")
     ELSE IF op.hasTopColumn
       THEN \* makeSubfieldProjections
            [node |-> [kind |-> "Project", id |-> ctx1.nextId,
                       names |-> [i \in DOMAIN op.columns |-> op.columns[i].name],
                       exprs |-> [i \in DOMAIN op.columns |-> toTypedExpr(op.columns[i])],
                       sources |-> <<scanNode>>],
             fragment |-> fragment1, ctx |-> idGeneratorNext(ctx1)]
       ELSE [node |-> scanNode, fragment |-> fragment1, ctx |-> ctx1]

RECURSIVE makeFragment(_, _, _)

\* Optimization::makeOrderBy
makeOrderBy(op, fragment, ctx) ==
  LET ctx0 == IF ctx.rootLimit > 0
                THEN [ctx EXCEPT !.toVeloxLimit = ctx.rootLimit,
                                 !.toVeloxOffset = ctx.rootOffset]
                ELSE ctx
      source0 == [ExecutableFragment EXCEPT
                    !.width = ctx.options.numWorkers,
                    !.taskPrefix = ctx0.stageCounter + 1]
      converted == toFieldRefs(TempProjections(op.inputs[1]),
                               op.distribution.order)
      sortOrder == sortOrders(op.distribution.orderType)
      keys == converted.refs
  IN WithValue(makeFragment(op.inputs[1], source0,
                            [ctx0 EXCEPT !.stageCounter = @ + 1]), LAMBDA r :
     IF r.ctx.error # "" THEN [node |-> NullNode, fragment |-> fragment, ctx |-> r.ctx]
     ELSE IF converted.projections.failed
       THEN Failed(fragment, r.ctx, "expr->type() != PlanType::kColumn")
     ELSE
       LET project == maybeProject(converted.projections, r.node, r.ctx)
           ctx3 == nextId(project.ctx, op)
           orderByNode ==
             IF project.ctx.toVeloxLimit <= 0
               THEN [kind |-> "OrderBy", id |-> project.ctx.nextId,
                     keys |-> keys, sortOrder |-> sortOrder, isPartial |-> TRUE,
                     sources |-> <<project.node>>]
               ELSE [kind |-> "TopN", id |-> project.ctx.nextId,
                     keys |-> keys, sortOrder |-> sortOrder,
                     count |-> project.ctx.toVeloxLimit + project.ctx.toVeloxOffset,
                     isPartial |-> TRUE, sources |-> <<project.node>>]
           localMerge == [kind |-> "LocalMerge", id |-> ctx3.nextId,
                          keys |-> keys, sortOrder |-> sortOrder,
                          sources |-> <<orderByNode>>]
           ctx4 == idGeneratorNext(ctx3)
           source == [r.fragment EXCEPT !.planNode =
                        [kind |-> "PartitionedOutput", id |-> ctx4.nextId,
                         outputKind |-> "kPartitioned", keys |-> <<>>,
                         numPartitions |-> 1, partitionFunction |-> "gather",
                         sources |-> <<localMerge>>]]
           ctx5 == idGeneratorNext(ctx4)
           merge == [kind |-> "MergeExchange", id |-> ctx5.nextId,
                     keys |-> keys, sortOrder |-> sortOrder, sources |-> <<>>]
           ctx6 == idGeneratorNext(ctx5)
           fragment1 == [fragment EXCEPT
                           !.width = 1,
                           !.inputStages = Append(@, [producerExchange |-> merge.id,
                                                      taskPrefix |-> source.taskPrefix])]
           ctx7 == [ctx6 EXCEPT !.stages = pushStage(@, source)]
       IN IF ctx7.toVeloxLimit > 0 \/ ctx7.toVeloxOffset # 0
            THEN [node |-> LimitNode(ctx7.nextId, ctx7.toVeloxOffset,
                                     ctx7.toVeloxLimit, FALSE, merge),
                  fragment |-> fragment1, ctx |-> idGeneratorNext(ctx7)]
            ELSE [node |-> merge, fragment |-> fragment1, ctx |-> ctx7])


\* The loop of makeAggregation over op.aggregates: the projections after the
\* masks and arguments were translated, and the velox Aggregates made.
RECURSIVE makeAggregates(_, _, _, _)
makeAggregates(projections, aggregates, names, isRawInput) ==
  IF aggregates = <<>> THEN [projections |-> projections, aggregates |-> <<>>]
  ELSE
    LET aggregate == Head(aggregates)
        masked == IF isRawInput /\ aggregate.condition # <<>>
                    THEN toFieldRef(projections, aggregate.condition[1])
                    ELSE projections
        mask == IF isRawInput /\ aggregate.condition # <<>>
                  THEN fieldRefName(projections, aggregate.condition[1])
                  ELSE ""
        args == IF isRawInput
                  THEN toFieldRefs(masked, aggregate.args)
                  ELSE [projections |-> masked, refs |-> <<Head(names)>>]
        rest == makeAggregates(args.projections, Tail(aggregates), Tail(names),
                               isRawInput)
    IN [projections |-> rest.projections,
        aggregates |->
          <<[call |-> [name |-> aggregate.name, inputs |-> args.refs],
             mask |-> mask]>> \o rest.aggregates]

\* Optimization::makeAggregation
makeAggregation(op, fragment, ctx) ==
  LET isRawInput == op.step \in {"kPartial", "kSingle"}
      numKeys == Len(op.grouping)
      aggregateNames == [i \in DOMAIN op.aggregates |-> op.columns[i + numKeys].name]
      made == makeAggregates(TempProjections(op.inputs[1]), op.aggregates,
                             aggregateNames, isRawInput)
      keys == toFieldRefs(made.projections, op.grouping)
  IN WithValue(makeFragment(op.inputs[1], fragment, ctx), LAMBDA r :
     IF r.ctx.error # "" THEN r
     ELSE IF keys.projections.failed
       THEN Failed(r.fragment, r.ctx, "expr->type() != PlanType::kColumn")
     ELSE
       LET project == maybeProject(keys.projections, r.node, r.ctx)
       IN [node |-> [kind |-> "Aggregation", id |-> project.ctx.nextId,
                     step |-> op.step, keys |-> keys.refs,
                     aggregateNames |-> aggregateNames,
                     aggregates |-> made.aggregates,
                     sources |-> <<project.node>>],
           fragment |-> r.fragment, ctx |-> nextId(project.ctx, op)])

\* Optimization::makeLimit and makeOffset: a limit over numWorkers workers of
\* numDrivers drivers each.  Every driver cuts its input to offset + limit
\* rows (partial limit), the drivers of a worker are gathered and cut again,
\* and the single consuming task applies the original offset and limit.
makeLimit(op, fragment, ctx) ==
  LET single == ctx.options.numWorkers = 1
      source0 == IF single THEN fragment
                 ELSE [ExecutableFragment EXCEPT
                         !.width = ctx.options.numWorkers,
                         !.taskPrefix = ctx.stageCounter + 1]
      partialCount == saturatingAdd(op.offset, op.limit)
  IN WithValue(makeFragment(op.inputs[1], source0,
                            IF single THEN ctx
                            ELSE [ctx EXCEPT !.stageCounter = @ + 1]), LAMBDA r :
     LET id == r.ctx.nextId
         partial == LimitNode(id, 0, partialCount, TRUE, r.node)
         localPartition == [kind |-> "LocalPartition", id |-> id + 1,
                            sources |-> <<partial>>]
     IN
     IF r.ctx.error # "" THEN [node |-> NullNode, fragment |-> fragment, ctx |-> r.ctx]
     ELSE IF single
       THEN IF ctx.options.numDrivers = 1
              THEN [node |-> LimitNode(id, op.offset, op.limit, FALSE, r.node),
                    fragment |-> r.fragment,
                    ctx |-> [r.ctx EXCEPT !.nextId = id + 1]]
              ELSE [node |-> LimitNode(id + 2, op.offset, op.limit, FALSE,
                                       localPartition),
                    fragment |-> r.fragment,
                    ctx |-> [r.ctx EXCEPT !.nextId = id + 3]]
     ELSE
       LET multiDriver == ctx.options.numDrivers > 1
           top == IF multiDriver
                    THEN LimitNode(id + 2, 0, partialCount, FALSE, localPartition)
                    ELSE partial
           used == IF multiDriver THEN 3 ELSE 1
           source == [r.fragment EXCEPT !.planNode =
                        [kind |-> "PartitionedOutput", id |-> id + used,
                         outputKind |-> "kPartitioned", keys |-> <<>>,
                         numPartitions |-> 1, partitionFunction |-> "gather",
                         sources |-> <<top>>]]
           exchange == [kind |-> "Exchange", id |-> id + used + 1,
                        sources |-> <<>>]
       IN [node |-> LimitNode(id + used + 2, op.offset, op.limit, FALSE, exchange),
           fragment |-> [fragment EXCEPT
                           !.width = 1,
                           !.inputStages = Append(@, [producerExchange |-> exchange.id,
                                                      taskPrefix |-> source.taskPrefix])],
           ctx |-> [r.ctx EXCEPT !.nextId = id + used + 3,
                                 !.stages = pushStage(@, source)]])

\* The RelType::kRepartition case of makeFragment.
makeRepartition(op, fragment, ctx) ==
  LET source0 == [ExecutableFragment EXCEPT
                    !.width = ctx.options.numWorkers,
                    !.taskPrefix = ctx.stageCounter + 1]
      converted == toFieldRefs(TempProjections(op.inputs[1]),
                               op.distribution.partition)
      keys == converted.refs
      fragment1 == IF op.distribution.isGather
                     THEN [fragment EXCEPT !.width = 1] ELSE fragment
  IN WithValue(makeFragment(op.inputs[1], source0,
                            [ctx EXCEPT !.stageCounter = @ + 1]), LAMBDA r :
     IF r.ctx.error # "" THEN [node |-> NullNode, fragment |-> fragment, ctx |-> r.ctx]
     ELSE IF converted.projections.failed
       THEN Failed(fragment, r.ctx, "expr->type() != PlanType::kColumn")
     ELSE
       LET partitioningInput == maybeProject(converted.projections, r.node, r.ctx)
           ctx2 == nextId(partitioningInput.ctx, op)
           source == [r.fragment EXCEPT
                        !.numBroadcastDestinations =
                           IF op.distribution.isBroadcast
                             THEN ctx.options.numWorkers ELSE @,
                        !.planNode =
                           [kind |-> "PartitionedOutput",
                            id |-> partitioningInput.ctx.nextId,
                            outputKind |-> IF op.distribution.isBroadcast
                                             THEN "kBroadcast" ELSE "kPartitioned",
                            keys |-> keys,
                            numPartitions |-> IF keys = <<>> THEN 1
                                              ELSE ctx.options.numWorkers,
                            partitionFunction |->
                              createPartitionFunctionSpec(keys, op.distribution.isBroadcast),
                            sources |-> <<partitioningInput.node>>]]
           exchange == [kind |-> "Exchange", id |-> ctx2.nextId, sources |-> <<>>]
       IN [node |-> exchange,
           fragment |-> [fragment1 EXCEPT
                           !.inputStages = Append(@, [producerExchange |-> exchange.id,
                                                      taskPrefix |-> source.taskPrefix])],
           ctx |-> [idGeneratorNext(ctx2) EXCEPT !.stages = pushStage(@, source)]])


\* The RelType::kJoin case of makeFragment.
makeJoin(op, fragment, ctx) ==
  WithValue(makeFragment(op.inputs[1], fragment, ctx), LAMBDA left :
  WithValue(makeFragment(op.inputs[2], left.fragment, left.ctx), LAMBDA right :
  LET ctx0 == right.ctx
  IN IF left.ctx.error # "" THEN left
     ELSE IF right.ctx.error # "" THEN right
     ELSE IF op.method = "kCross"
       THEN LET joinNode == [kind |-> "NestedLoopJoin", id |-> ctx0.nextId,
                             sources |-> <<left.node, right.node>>]
                ctx1 == nextId(ctx0, op)
            IN IF op.exprs = <<>>
                 THEN [node |-> joinNode, fragment |-> right.fragment, ctx |-> ctx1]
                 ELSE [node |-> [kind |-> "Filter", id |-> ctx1.nextId,
                                 filter |-> toAnd(op.exprs),
                                 sources |-> <<joinNode>>],
                       fragment |-> right.fragment,
                       ctx |-> idGeneratorNext(ctx1)]
     ELSE
       LET leftKeys == toFieldRefs(TempProjections(op.inputs[1]), op.leftKeys)
           rightKeys == toFieldRefs(TempProjections(op.inputs[2]), op.rightKeys)
       IN IF leftKeys.projections.failed \/ rightKeys.projections.failed
            THEN Failed(right.fragment, ctx0, "expr->type() != PlanType::kColumn")
          ELSE IF ctx0.argOrder = "leftToRight"
            THEN LET ctx1 == nextId(ctx0, op)
                     lp == maybeProject(leftKeys.projections, left.node, ctx1)
                     rp == maybeProject(rightKeys.projections, right.node, lp.ctx)
                 IN [node |-> [kind |-> "HashJoin", id |-> ctx0.nextId,
                               leftKeys |-> leftKeys.refs, rightKeys |-> rightKeys.refs,
                               filter |-> toAnd(op.exprs),
                               sources |-> <<lp.node, rp.node>>],
                     fragment |-> right.fragment, ctx |-> rp.ctx]
            ELSE LET rp == maybeProject(rightKeys.projections, right.node, ctx0)
                     lp == maybeProject(leftKeys.projections, left.node, rp.ctx)
                 IN [node |-> [kind |-> "HashJoin", id |-> lp.ctx.nextId,
                               leftKeys |-> leftKeys.refs, rightKeys |-> rightKeys.refs,
                               filter |-> toAnd(op.exprs),
                               sources |-> <<lp.node, rp.node>>],
                     fragment |-> right.fragment, ctx |-> nextId(lp.ctx, op)]))

\* Optimization::makeFragment
makeFragment(op, fragment, ctx) ==
  CASE op.relType = "kProject" ->
         WithValue(makeFragment(op.inputs[1], fragment, ctx), LAMBDA r :
            IF r.ctx.error # "" THEN r
            ELSE [node |-> [kind |-> "Project", id |-> r.ctx.nextId,
                            names |-> [i \in DOMAIN op.columns |-> op.columns[i].name],
                            exprs |-> [i \in DOMAIN op.exprs |-> toTypedExpr(op.exprs[i])],
                            sources |-> <<r.node>>],
                  fragment |-> r.fragment, ctx |-> nextId(r.ctx, op)])
    [] op.relType = "kFilter" ->
         \* the id and the input are both call arguments of make_shared
         IF ctx.argOrder = "leftToRight"
           THEN WithValue(makeFragment(op.inputs[1], fragment, idGeneratorNext(ctx)),
                          LAMBDA r :
                   IF r.ctx.error # "" THEN r
                   ELSE [node |-> [kind |-> "Filter", id |-> ctx.nextId,
                                   filter |-> toAnd(op.exprs), sources |-> <<r.node>>],
                         fragment |-> r.fragment, ctx |-> r.ctx])
           ELSE WithValue(makeFragment(op.inputs[1], fragment, ctx), LAMBDA r :
                   IF r.ctx.error # "" THEN r
                   ELSE [node |-> [kind |-> "Filter", id |-> r.ctx.nextId,
                                   filter |-> toAnd(op.exprs), sources |-> <<r.node>>],
                         fragment |-> r.fragment, ctx |-> idGeneratorNext(r.ctx)])
    [] op.relType = "kAggregation" -> makeAggregation(op, fragment, ctx)
    [] op.relType = "kOrderBy" -> makeOrderBy(op, fragment, ctx)
    [] op.relType = "kRepartition" -> makeRepartition(op, fragment, ctx)
    [] op.relType = "kTableScan" -> makeTableScan(op, fragment, ctx)
    [] op.relType = "kJoin" -> makeJoin(op, fragment, ctx)
    [] op.relType = "kHashBuild" -> makeFragment(op.inputs[1], fragment, ctx)
    [] op.relType = "kLimit" -> makeLimit(op, fragment, ctx)
    [] OTHER -> Failed(fragment, ctx, "Unsupported RelationOp")

\* addGather without the early return for an input that is gathered already.
addGather_Always(op) ==
  IF op.relType = "kOrderBy"
    THEN LET final == gatherDistribution(op.distribution.order,
                                         op.distribution.orderType)
         IN OrderBy(Repartition(op, final, op.columns), final)
    ELSE Repartition(op, gatherDistribution(<<>>, <<>>), op.columns)

\* Optimization::addGather: a plan that is not gathered gets a gathering
\* Repartition on top, below a final OrderBy where the plan is ordered.
addGather(op) ==
  IF op.distribution.isGather THEN op
  ELSE IF op.relType = "kOrderBy"
    THEN LET final == gatherDistribution(op.distribution.order,
                                         op.distribution.orderType)
         IN OrderBy(Repartition(op, final, op.columns), final)
    ELSE Repartition(op, gatherDistribution(<<>>, <<>>), op.columns)

\* Optimization::toVeloxPlan: the MultiFragmentPlan, or the error raised.
toVeloxPlan(plan, ctx) ==
  LET gathered == IF ctx.options.numWorkers > 1 THEN addGather(plan) ELSE plan
  IN WithValue(makeFragment(gathered, ExecutableFragment, ctx), LAMBDA r :
     LET top == [r.fragment EXCEPT !.planNode = r.node]
     IN [status |-> IF r.ctx.error = "" THEN "ok" ELSE "error",
         error |-> r.ctx.error,
         input |-> plan,
         options |-> ctx.options,
         fragments |-> IF r.ctx.error = "" THEN Append(r.ctx.stages, top) ELSE <<>>,
         costEstimates |-> r.ctx.costEstimates,
         leafHandles |-> r.ctx.leafHandles])


(***************************************************************************)
(* The plans toVeloxPlan is called with.                                   *)
(***************************************************************************)
MaxDepth == 1

hashDistribution(keys) == Distribution(FALSE, FALSE, keys, <<>>, <<>>)
broadcastDistribution == Distribution(FALSE, TRUE, <<>>, <<>>, <<>>)

\* Operators over one input, as the search places them.
UnaryOps(p) ==
  { Filter(p, <<Call("p1", <<p.columns[1]>>)>>),
    Project(p, <<p.columns[1]>>, <<p.columns[1]>>),
    Repartition(p, hashDistribution(<<p.columns[1]>>), p.columns),
    Repartition(p, hashDistribution(<<Call("plus", <<p.columns[1]>>)>>), p.columns),
    Repartition(p, broadcastDistribution, p.columns),
    Repartition(p, Distribution(FALSE, TRUE, <<p.columns[1]>>, <<>>, <<>>), p.columns),
    Repartition(p, gatherDistribution(<<>>, <<>>), p.columns),
    OrderBy(p, gatherDistribution(<<p.columns[1]>>, <<"kDescNullsLast">>)) }

\* Build sides of a join.
Builds ==
  { HashBuild(b, <<Col("c")>>) :
      b \in { TableScan(2),
              Repartition(TableScan(2), hashDistribution(<<Col("c")>>), <<Col("c")>>),
              Repartition(TableScan(2), broadcastDistribution, <<Col("c")>>) } }

JoinOps(p) ==
  { Join("kHash", p, b, <<p.columns[1]>>, <<Col("c")>>, <<>>) : b \in Builds }
  \cup
  { Join("kCross", p, b, <<>>, <<>>, <<Call("j1", <<p.columns[1], Col("c")>>)>>) :
      b \in Builds }

RECURSIVE Trees(_)
Trees(depth) ==
  IF depth = 0 THEN { TableScan(t) : t \in BaseTables }
  ELSE LET below == Trees(depth - 1)
       IN below \cup UNION { UnaryOps(p) \cup JoinOps(p) : p \in below }

\* (offset, limit) pairs of the LIMIT clauses planned: plain, with an offset,
\* offset only, and offset + limit beyond the maximum.
LimitInputs ==
  { <<0, 2>>, <<1, 2>>, <<1, kMaxLimit>>, <<kMaxLimit - 1, 3>> }

LimitPlans ==
  { Limit(p, ol[1], ol[2]) : p \in Trees(MaxDepth - 1), ol \in LimitInputs }

\* The plan of SELECT .. FROM t ORDER BY keys [OFFSET o] LIMIT l: the limit
\* and offset stay in the root derived table (rootLimit, rootOffset).
OrderByPlan(table, keys, orderType) ==
  Project(OrderBy(TableScan(table), gatherDistribution(keys, orderType)),
          <<tableColumns(table)[1]>>, <<tableColumns(table)[1]>>)

\* Deeper plans: chains of exchanges and joins of repartitioned inputs.
QueryPlans ==
  LET scan1 == TableScan(1)
      scan2 == TableScan(2)
      shuffled == Repartition(scan1, hashDistribution(<<Col("a")>>), scan1.columns)
      build == HashBuild(Repartition(scan2, hashDistribution(<<Col("c")>>), scan2.columns),
                         <<Col("c")>>)
      joined == Join("kHash", shuffled, build, <<Col("a")>>, <<Col("c")>>, <<>>)
  IN { OrderByPlan(1, <<Col("a")>>, <<"kDescNullsLast">>),
       OrderByPlan(1, <<Col("a"), Col("b")>>, <<"kAscNullsFirst", "kDescNullsFirst">>),
       Repartition(shuffled, hashDistribution(<<Col("b")>>), shuffled.columns),
       joined,
       Repartition(joined, hashDistribution(<<Col("b")>>), joined.columns),
       OrderBy(joined, gatherDistribution(<<Col("c")>>, <<"kAscNullsLast">>)) }

\* Aggregation queries over table 1: the requested grouping keys and
\* aggregates, each with its output name.
AggregationQueries ==
  LET ab == Call("plus", <<Col("a"), Col("b")>>)
      gt == Call("gt", <<Col("b"), Literal("0")>>)
      lt == Call("lt", <<Col("b"), Literal("0")>>)
      key(n, e) == [name |-> n, expr |-> e]
      agg(n, f, a, c) == [name |-> n, expr |-> Aggregate(f, a, c)]
  IN { [keys |-> <<key("x", ab), key("y", ab)>>,
        aggregates |-> << agg("count", "count", <<Literal("1")>>, <<>>),
                          agg("count_2", "count", <<Literal("1")>>, <<>>) >>],
       [keys |-> <<key("ab1", ab), key("ab2", ab)>>,
        aggregates |-> << agg("c1", "count", <<ab>>, <<>>) >>],
       [keys |-> <<>>,
        aggregates |-> << agg("sum1", "sum", <<Col("a")>>, <<gt>>),
                          agg("sum2", "sum", <<Col("a")>>, <<lt>>),
                          agg("sum3", "sum", <<Col("a")>>, <<gt>>) >>],
       [keys |-> <<key("a", Col("a"))>>,
        aggregates |-> << agg("s", "sum", <<Col("b")>>, <<gt>>),
                          agg("n", "count", <<Col("b")>>, <<gt>>),
                          agg("m", "sum", <<Col("b")>>, <<>>) >>],
       [keys |-> <<key("a", Col("a")), key("b", Col("b"))>>,
        aggregates |-> << agg("s", "sum", <<Col("a")>>, <<Col("b")>>),
                          agg("t", "sum", <<ab>>, <<Col("b")>>) >>] }

\* The entries of 'named' whose expr occurs at no earlier position.
distinctExprs(named) ==
  SelectSeq([i \in DOMAIN named |-> [name |-> named[i].name, expr |-> named[i].expr,
                                      first |-> \A j \in 1..(i - 1) :
                                                  named[j].expr # named[i].expr]],
            LAMBDA n : n.first)

\* The name of the first entry of 'named' with the expr 'e'.
firstName(named, e) ==
  named[CHOOSE i \in DOMAIN named :
          /\ named[i].expr = e
          /\ \A j \in 1..(i - 1) : named[j].expr # e].name

\* All requested keys and aggregates are kept, duplicates included.
translateAggregation_KeepAll(query) ==
  LET requested == query.keys \o query.aggregates
      columns == [i \in DOMAIN requested |-> Col(requested[i].name)]
  IN Project(Aggregation(TableScan(1), "kSingle",
                         [i \in DOMAIN query.keys |-> query.keys[i].expr],
                         [i \in DOMAIN query.aggregates |-> query.aggregates[i].expr],
                         columns),
             columns, columns)

\* The plan of an aggregation query: structurally equal grouping keys and
\* structurally equal aggregates are planned once, and a projection above the
\* aggregation gives every requested output its column.
translateAggregation(query) ==
  LET keys == distinctExprs(query.keys)
      aggregates == distinctExprs(query.aggregates)
      kept == keys \o aggregates
      requested == query.keys \o query.aggregates
      named(i) == IF i <= Len(query.keys)
                    THEN firstName(query.keys, requested[i].expr)
                    ELSE firstName(query.aggregates, requested[i].expr)
  IN Project(Aggregation(TableScan(1), "kSingle",
                         [i \in DOMAIN keys |-> keys[i].expr],
                         [i \in DOMAIN aggregates |-> aggregates[i].expr],
                         [i \in DOMAIN kept |-> Col(kept[i].name)]),
             [i \in DOMAIN requested |-> Col(named(i))],
             [i \in DOMAIN requested |-> Col(requested[i].name)])

\* A grouped sum computed in two steps: partial per worker, final after the
\* rows were repartitioned on the grouping key.
PartialFinalPlan ==
  LET columns == <<Col("a"), Col("s")>>
      partial == Aggregation(TableScan(1), "kPartial", <<Col("a")>>,
                             <<Aggregate("sum", <<Col("b")>>, <<>>)>>, columns)
      shuffled == Repartition(partial, hashDistribution(<<Col("a")>>), columns)
  IN Aggregation(shuffled, "kFinal", <<Col("a")>>,
                 <<Aggregate("sum", <<Col("b")>>, <<>>)>>, columns)

AggregationPlans ==
  { translateAggregation(query) : query \in AggregationQueries }
  \cup {PartialFinalPlan}

InputPlans == Trees(MaxDepth) \cup LimitPlans \cup QueryPlans \cup AggregationPlans

Options == [numWorkers : {1, 2}, numDrivers : {1, 2}]

RootLimits == { <<-1, 0>>, <<0, 0>>, <<2, 0>>, <<2, 1>> }

(***************************************************************************)
(* The emitter as a state machine.                                         *)
(***************************************************************************)
NoPlan == [status |-> "none"]

\* No derived table is being planned and nothing was planned yet.
NoDt == [active |-> FALSE]
NoState == [active |-> FALSE]
NoResult == [made |-> FALSE]
NoCatalog == [loaded |-> FALSE]

SearchIdle ==
  /\ catalog = NoCatalog
  /\ dt = NoDt
  /\ state = NoState
  /\ stack = <<>>
  /\ memo = {}
  /\ pruned = {}
  /\ lastPlan = NoResult
  /\ numEnumerations = <<>>

InitEmit ==
  /\ connector \in {{}, {"g1"}}
  /\ subfieldFilter \in [ColumnFilterNames -> {"subfield", "none", "throws"}]
  /\ argOrder \in {"leftToRight", "rightToLeft"}
  /\ \E lo \in RootLimits : rootLimit = lo[1] /\ rootOffset = lo[2]
  /\ leafHandles = [t \in BaseTables |-> NoHandle]
  /\ veloxPlan = NoPlan
  /\ SearchIdle
  /\ RestIdle

\* filterUpdated(table) as called while the query graph is built.
FilterUpdated(table) ==
  /\ veloxPlan = NoPlan
  /\ leafHandles' = filterUpdated(leafHandles, table, subfieldFilter, connector)
  /\ UNCHANGED <<connector, subfieldFilter, argOrder, rootLimit, rootOffset,
                 veloxPlan, searchVars, restVars>>

ToVeloxPlan(plan, opts) ==
  /\ veloxPlan = NoPlan
  /\ \E made \in {toVeloxPlan(plan, EmitContext(leafHandles, opts, argOrder,
                                                rootLimit, rootOffset,
                                                subfieldFilter, connector))} :
       /\ veloxPlan' = made
       /\ leafHandles' = made.leafHandles
  /\ UNCHANGED <<connector, subfieldFilter, argOrder, rootLimit, rootOffset,
                 searchVars, restVars>>

NextEmit ==
  \/ \E table \in BaseTables : FilterUpdated(table)
  \/ \E plan \in InputPlans, opts \in Options : ToVeloxPlan(plan, opts)

SpecEmit == InitEmit /\ [][NextEmit]_vars


(***************************************************************************)
(* The search: join order enumeration into a PlanSet, memoized by MemoKey. *)
(***************************************************************************)
SearchTables == BaseTables \cup {3}

\* Join edges of the query graph, each with the key column of either side.
JoinEdges ==
  { [tables |-> {1, 2}, keys |-> (1 :> Col("a")) @@ (2 :> Col("c"))],
    [tables |-> {2, 3}, keys |-> (2 :> Col("c")) @@ (3 :> Col("d"))] }

\* Conjuncts of the query graph that are not join edges.
dtConjuncts ==
  << Call("p1", <<Col("a")>>),
     Call("p12", <<Col("b"), Col("c")>>),
     Call("p3", <<Col("d")>>) >>

\* Expr::columns(): the columns an expression references.
RECURSIVE exprColumns(_)
exprColumns(expr) ==
  IF expr.type = "kColumn" THEN {expr}
  ELSE UNION { exprColumns(expr.args[i]) : i \in DOMAIN expr.args }

columnsOfTables(tables) == UNION { Range(tableColumns(t)) : t \in tables }

MemoKey(firstTable, tables, columns, existences) ==
  [firstTable |-> firstTable, tables |-> tables, columns |-> columns,
   existences |-> existences]

\* The keys makePlan is called with.
MemoKeys ==
  { MemoKey(1, {1}, {Col("a")}, <<>>),
    MemoKey(1, {1, 2}, {Col("a"), Col("c")}, <<>>),
    MemoKey(2, {1, 2}, {Col("a"), Col("c")}, <<>>),
    MemoKey(2, {2, 3}, {Col("d")}, <<>>),
    MemoKey(1, {1, 2, 3}, {Col("a"), Col("d")}, <<>>) }

\* The distributions makePlan is asked for.
RequestedDistributions ==
  { Distribution(FALSE, FALSE, <<>>, <<>>, <<>>),
    Distribution(FALSE, FALSE, <<Col("c")>>, <<>>, <<>>) }

\* Per table the cardinality and the fanout of a join to it, in units of
\* 1/FanoutDen.
FanoutDen == 5
Catalogs ==
  { [loaded |-> TRUE, cardinality |-> c, fanout |-> f] :
      <<c, f>> \in
        { << (1 :> 4) @@ (2 :> 2) @@ (3 :> 1), (1 :> 5) @@ (2 :> 5) @@ (3 :> 2) >>,
          << (1 :> 1) @@ (2 :> 3) @@ (3 :> 2), (1 :> 10) @@ (2 :> 5) @@ (3 :> 5) >>,
          << (1 :> 2) @@ (2 :> 1) @@ (3 :> 4), (1 :> 2) @@ (2 :> 10) @@ (3 :> 5) >>,
          << (1 :> 3) @@ (2 :> 3) @@ (3 :> 3), (1 :> 5) @@ (2 :> 2) @@ (3 :> 10) >>,
          \* tables without rows
          << (1 :> 0) @@ (2 :> 0) @@ (3 :> 2), (1 :> 5) @@ (2 :> 5) @@ (3 :> 5) >> } }

\* The derived table a key stands for: the key's tables with the join edges
\* and conjuncts among them, projecting the key's columns.
makeDt(key, distribution) ==
  [active |-> TRUE, key |-> key, distribution |-> distribution,
   tables |-> key.tables,
   joins |-> { e \in JoinEdges : e.tables \subseteq key.tables },
   conjuncts |-> SelectSeq(dtConjuncts, LAMBDA c :
                   exprColumns(c) \subseteq columnsOfTables(key.tables)),
   columns |-> key.columns]

(***************************************************************************)
(* Costs.  unitCost and setupCost are whole units, fanout is counted in    *)
(* units of 1/FanoutDen.                                                   *)
(***************************************************************************)
Cost(unitCost, setupCost, fanout) ==
  [unitCost |-> unitCost, setupCost |-> setupCost, fanout |-> fanout]

kColumnRowCost == 5
kArrayProbeCost == 2
kMinimumFilterCost == 2

\* updateLeafCost for columns of at most 8 bytes: the fanout of a leaf is its
\* cardinality and its unit cost the cost of all its rows.
scanCost(cat, table) ==
  Cost(cat.cardinality[table] * Len(tableColumns(table)) * kColumnRowCost,
       0, cat.cardinality[table] * FanoutDen)

\* 0.8 to the power n.
RECURSIVE filterFanout(_)
filterFanout(n) ==
  IF n = 0 THEN FanoutDen
  ELSE (8 * filterFanout(n - 1)) \div 10

\* Filter::setCost
filterCost(exprs) == Cost(kMinimumFilterCost * Len(exprs), 0, filterFanout(Len(exprs)))

\* shuffleCost(columns): the bytes of a row, one unit per column.
shuffleCost(columns) == Len(columns)

\* Repartition::setCost
repartitionCost(columns) == Cost(shuffleCost(columns), 0, FanoutDen)

\* The build side of a hash join: scanned, shuffled or broadcast to the two
\* workers, and built once before the probe runs.
buildCost(cat, table, broadcast) ==
  LET rows == cat.cardinality[table] * (IF broadcast THEN 2 ELSE 1)
  IN Cost(0, scanCost(cat, table).unitCost
             + rows * shuffleCost(tableColumns(table))
             + rows * kArrayProbeCost, FanoutDen)

\* Join::setCost with a fanout taken from the join edge: the probe of a small
\* build side, half a unit (kHashExtractColumnCost) per build column of each
\* result row and half a unit (kHashColumnCost) for the one left key.
joinCost(cat, table) ==
  LET rowCost == Len(tableColumns(table))
  IN Cost(kArrayProbeCost
            + (cat.fanout[table] * rowCost + FanoutDen) \div (2 * FanoutDen),
          0, cat.fanout[table])

\* PlanState::addCost: the unit cost of 'op' counts once per row that reaches
\* it; setup costs add up; the fanouts multiply.
addCost(cost, opCost_) ==
  Cost(cost.unitCost + (cost.fanout * opCost_.unitCost) \div FanoutDen,
       cost.setupCost + opCost_.setupCost,
       (cost.fanout * opCost_.fanout) \div FanoutDen)

totalCost(cost) == cost.unitCost + cost.setupCost

(***************************************************************************)
(* PlanSet, PlanState and the guard that restores a PlanState.             *)
(***************************************************************************)
EmptyPlanSet == [plans |-> <<>>, bestCostWithShuffle |-> 0]

\* Plan::Plan(op, state)
Plan(op, st) ==
  [op |-> op, cost |-> st.cost, tables |-> st.placed, columns |-> st.columns]

isSamePartition(d1, d2) ==
  /\ d1.partition = d2.partition
  /\ d1.isGather = d2.isGather
  /\ d1.isBroadcast = d2.isBroadcast

\* Plan::isStateBetter: 'state' costs less than this plan.
isStateBetter(plan, st) == totalCost(st.cost) < totalCost(plan.cost)

\* The cutoff after a plan was added: its cost with a Repartition of its rows
\* on top, where that is below the cutoff so far.
withShuffle(planSet, op, st) ==
  LET cost == totalCost(addCost(st.cost, repartitionCost(op.columns)))
  IN IF planSet.bestCostWithShuffle = 0 \/ cost < planSet.bestCostWithShuffle
       THEN cost ELSE planSet.bestCostWithShuffle

\* addPlan retaining every plan it is given.
addPlan_KeepAll(planSet, op, st) ==
  [plans |-> Append(planSet.plans, Plan(op, st)),
   bestCostWithShuffle |-> withShuffle(planSet, op, st)]

\* PlanSet::addPlan: the plan is retained if no retained plan of the same
\* distribution costs as little, and replaces the retained plans of that
\* distribution.
addPlan(planSet, op, st) ==
  LET same(old) == isSamePartition(old.op.distribution, op.distribution)
  IN IF \E i \in DOMAIN planSet.plans :
          same(planSet.plans[i]) /\ ~isStateBetter(planSet.plans[i], st)
       THEN planSet
       ELSE [plans |-> Append(SelectSeq(planSet.plans, LAMBDA old : ~same(old)),
                              Plan(op, st)),
             bestCostWithShuffle |-> withShuffle(planSet, op, st)]

\* The first of the cheapest plans among those at 'positions'.
cheapest(plans, positions) ==
  CHOOSE i \in positions :
    \A j \in positions :
      \/ totalCost(plans[i].cost) < totalCost(plans[j].cost)
      \/ totalCost(plans[i].cost) = totalCost(plans[j].cost) /\ i <= j

\* PlanSet::best ignoring the distribution asked for.
best_AnyDistribution(planSet, distribution) ==
  LET plan == planSet.plans[cheapest(planSet.plans, DOMAIN planSet.plans)]
  IN [plan |-> plan,
      needsShuffle |-> ~isSamePartition(plan.op.distribution, distribution)]

\* PlanSet::best: the best plan that produces 'distribution'; where no plan
\* does, the best plan, which then needs a shuffle.
best(planSet, distribution) ==
  LET matching == { i \in DOMAIN planSet.plans :
                      isSamePartition(planSet.plans[i].op.distribution,
                                      distribution) }
  IN IF matching # {}
       THEN [plan |-> planSet.plans[cheapest(planSet.plans, matching)],
             needsShuffle |-> FALSE]
       ELSE [plan |-> planSet.plans[cheapest(planSet.plans, DOMAIN planSet.plans)],
             needsShuffle |-> TRUE]

\* PlanState::PlanState(optimization, dt).  'placed' holds tables and
\* conjuncts; the two are kept apart here.  The search below keeps the build
\* of a join in the Join itself and leaves 'builds' and 'debugPlacedTables'
\* empty.
PlanState(table) ==
  [active |-> TRUE, placed |-> {}, placedConjuncts |-> {}, columns |-> {},
   targetColumns |-> table.columns, cost |-> Cost(0, 0, FanoutDen),
   builds |-> <<>>, debugPlacedTables |-> <<>>,
   hasCutoff |-> TRUE, plans |-> EmptyPlanSet]

\* isOverBest abandoning whatever costs more than half the cutoff.
isOverBest_Half(st) ==
  /\ st.hasCutoff
  /\ st.plans.bestCostWithShuffle # 0
  /\ 2 * (st.cost.unitCost + st.cost.setupCost) > st.plans.bestCostWithShuffle

\* isOverBest without the test for a retained plan.
isOverBest_NoPlan(st) ==
  /\ st.hasCutoff
  /\ st.cost.unitCost + st.cost.setupCost > st.plans.bestCostWithShuffle

\* PlanState::isOverBest
isOverBest(st) ==
  /\ st.hasCutoff
  /\ st.plans.bestCostWithShuffle # 0
  /\ st.cost.unitCost + st.cost.setupCost > st.plans.bestCostWithShuffle

\* PlanStateSaver::PlanStateSaver(state)
PlanStateSaver(st) ==
  [placed |-> st.placed, placedConjuncts |-> st.placedConjuncts,
   columns |-> st.columns, cost |-> st.cost,
   numBuilds |-> Len(st.builds), numPlaced |-> Len(st.debugPlacedTables)]

\* std::vector::resize: the first 'size' elements, with empty elements added
\* where there are fewer.
NullBuild == [relType |-> "null"]
resize(vector, size, empty) ==
  [i \in 1..size |-> IF i <= Len(vector) THEN vector[i] ELSE empty]

\* A destructor that puts back the sets and leaves cost and builds.
restore_SetsOnly(st, saver) ==
  [st EXCEPT !.placed = saver.placed,
             !.placedConjuncts = saver.placedConjuncts,
             !.columns = saver.columns]

\* PlanStateSaver::~PlanStateSaver
restore(st, saver) ==
  [st EXCEPT !.placed = saver.placed,
             !.placedConjuncts = saver.placedConjuncts,
             !.columns = saver.columns,
             !.cost = saver.cost,
             !.builds = resize(@, saver.numBuilds, NullBuild),
             !.debugPlacedTables = resize(@, saver.numPlaced, 0)]

\* A pending call makeJoins(plan, state): the plan and the fields of the
\* state as they are when the call is made.
Call_makeJoins(plan, st) == [plan |-> plan, entry |-> PlanStateSaver(st)]

(***************************************************************************)
(* The steps of Optimization::makeJoins(plan, state).                      *)
(***************************************************************************)
\* placeConjuncts placing every unplaced conjunct.
placeConjuncts_Eager(table, plan, st) ==
  LET exprs == SelectSeq(table.conjuncts, LAMBDA c : c \notin st.placedConjuncts)
  IN IF exprs = <<>> THEN [placed |-> FALSE, plan |-> plan, state |-> st]
     ELSE [placed |-> TRUE, plan |-> Filter(plan, exprs),
           state |-> [st EXCEPT !.placedConjuncts = @ \cup Range(exprs),
                                !.cost = addCost(@, filterCost(exprs))]]

\* Optimization::placeConjuncts: the conjuncts of the derived table that are
\* not placed and whose columns are placed go into a Filter on top of 'plan'.
placeConjuncts(table, plan, st) ==
  LET exprs == SelectSeq(table.conjuncts, LAMBDA c :
                 c \notin st.placedConjuncts /\ exprColumns(c) \subseteq st.columns)
  IN IF exprs = <<>> THEN [placed |-> FALSE, plan |-> plan, state |-> st]
     ELSE [placed |-> TRUE, plan |-> Filter(plan, exprs),
           state |-> [st EXCEPT !.placedConjuncts = @ \cup Range(exprs),
                                !.cost = addCost(@, filterCost(exprs))]]

\* Optimization::addPostprocess: the plan is projected to the columns asked
\* for.
addPostprocess(table, plan, st) ==
  LET out == SelectSeq(plan.columns, LAMBDA c : c \in table.columns)
  IN [plan |-> Project(plan, out, out),
      state |-> [st EXCEPT !.cost = addCost(@, Cost(Len(out), 0, FanoutDen))]]

\* Candidates in the order they are tried: smaller fanout first.
RECURSIVE sortCandidates(_)
sortCandidates(candidates) ==
  IF candidates = {} THEN <<>>
  ELSE LET first == CHOOSE c \in candidates : \A d \in candidates :
                      \/ c.fanout < d.fanout
                      \/ c.fanout = d.fanout /\ c.table <= d.table
       IN <<first>> \o sortCandidates(candidates \ {first})

\* Optimization::nextJoins: the tables joined by an edge to a placed table.
nextJoins(cat, table, st) ==
  sortCandidates(
    { [table |-> t, join |-> e, fanout |-> cat.fanout[t]] :
        <<t, e>> \in { <<t, e>> \in (table.tables \ st.placed) \X table.joins :
                         t \in e.tables /\ (e.tables \ {t}) \subseteq st.placed } })

\* The start of the enumeration: each table of the derived table as the first
\* table of a plan.
firstTable(cat, table, st, t) ==
  [plan |-> TableScan(t),
   state |-> [st EXCEPT !.placed = {t},
                        !.columns = Range(tableColumns(t)),
                        !.cost = addCost(@, scanCost(cat, t))]]

\* Optimization::joinByHash: the candidate becomes the build side of a hash
\* join, either broadcast or with both sides partitioned on the join keys.
joinByHash(cat, candidate, plan, st, broadcast) ==
  LET t == candidate.table
      other == CHOOSE o \in candidate.join.tables : o # t
      leftKey == candidate.join.keys[other]
      rightKey == candidate.join.keys[t]
      scan == TableScan(t)
      shuffleProbe == ~broadcast /\ plan.distribution.partition # <<leftKey>>
      probe == IF shuffleProbe
                 THEN Repartition(plan, hashDistribution(<<leftKey>>), plan.columns)
                 ELSE plan
      build == HashBuild(
                 Repartition(scan,
                             IF broadcast THEN broadcastDistribution
                             ELSE hashDistribution(<<rightKey>>),
                             scan.columns),
                 <<rightKey>>)
      cost1 == IF shuffleProbe THEN addCost(st.cost, repartitionCost(plan.columns))
               ELSE st.cost
      cost2 == addCost(addCost(cost1, buildCost(cat, t, broadcast)), joinCost(cat, t))
  IN [plan |-> Join("kHash", probe, build, <<leftKey>>, <<rightKey>>, <<>>),
      state |-> [st EXCEPT !.placed = @ \cup {t},
                           !.columns = @ \cup Range(scan.columns),
                           !.cost = cost2]]

\* Optimization::addJoin over all candidates: the joins that can come next.
addJoins(cat, table, plan, st) ==
  LET candidates == nextJoins(cat, table, st)
      variants(c) == << joinByHash(cat, c, plan, st, FALSE),
                        joinByHash(cat, c, plan, st, TRUE) >>
      flatten[i \in 0..Len(candidates)] ==
        IF i = 0 THEN <<>> ELSE flatten[i - 1] \o variants(candidates[i])
  IN flatten[Len(candidates)]

\* PlanState::addNextJoin: a join is kept for trying unless its cost is over
\* the best.
addNextJoin(next) == ~isOverBest(next.state)

(***************************************************************************)
(* The search as a state machine.  The recursion of makeJoins is the       *)
(* stack of pending calls; the head is the call that runs next.  Each call *)
(* starts from the PlanState fields its caller set, which the caller's     *)
(* PlanStateSaver puts back when the call returns.                         *)
(***************************************************************************)
EmitIdle ==
  /\ connector = {}
  /\ subfieldFilter = [f \in ColumnFilterNames |-> "none"]
  /\ argOrder = "leftToRight"
  /\ rootLimit = -1
  /\ rootOffset = 0
  /\ leafHandles = [t \in BaseTables |-> NoHandle]
  /\ veloxPlan = NoPlan

InitSearch ==
  /\ EmitIdle
  /\ RestIdle
  /\ catalog \in Catalogs
  /\ dt = NoDt
  /\ state = NoState
  /\ stack = <<>>
  /\ memo = {}
  /\ pruned = {}
  /\ lastPlan = NoResult
  /\ numEnumerations = [key \in MemoKeys |-> 0]

MemoResult(key, distribution, planSet, fromMemo) ==
  LET found == best(planSet, distribution)
  IN [made |-> TRUE, key |-> key, distribution |-> distribution,
      fromMemo |-> fromMemo, plan |-> found.plan,
      needsShuffle |-> found.needsShuffle]

\* makePlan for a key that is in the memo.
MakePlanMemo(key, distribution) ==
  /\ ~dt.active
  /\ \E entry \in memo :
       /\ entry.key = key
       /\ lastPlan' = MemoResult(key, distribution, entry.plans, TRUE)
  /\ UNCHANGED <<restVars, emitVars, catalog, dt, state, stack, memo, pruned,
                 numEnumerations>>

\* makePlan for a key that is not in the memo: a fresh PlanState, and
\* makeJoins for every first table.
MakePlanNew(key, distribution) ==
  /\ ~dt.active
  /\ \A entry \in memo : entry.key # key
  /\ LET table == makeDt(key, distribution)
         fresh == PlanState(table)
         order == sortCandidates({ [table |-> t, fanout |-> 0] : t \in table.tables })
     IN /\ dt' = table
        /\ state' = fresh
        /\ stack' = [i \in DOMAIN order |->
                       LET first == firstTable(catalog, table, fresh, order[i].table)
                       IN Call_makeJoins(first.plan, first.state)]
  /\ pruned' = {}
  /\ lastPlan' = NoResult
  /\ numEnumerations' = [numEnumerations EXCEPT ![key] = @ + 1]
  /\ UNCHANGED <<restVars, emitVars, catalog, memo>>

\* makeJoins, first step: conjuncts are placed and makeJoins is called on the
\* filtered plan.
PlaceConjuncts ==
  /\ dt.active /\ stack # <<>>
  /\ LET call == Head(stack)
         r == placeConjuncts(dt, call.plan, restore(state, call.entry))
     IN /\ r.placed
        /\ state' = r.state
        /\ stack' = <<Call_makeJoins(r.plan, r.state)>> \o Tail(stack)
  /\ UNCHANGED <<restVars, emitVars, catalog, dt, memo, pruned, lastPlan, numEnumerations>>

\* makeJoins, base case: all tables are placed; the plan is completed and
\* offered to the PlanSet.
AddPlan ==
  /\ dt.active /\ stack # <<>>
  /\ LET call == Head(stack)
         st == restore(state, call.entry)
         r == addPostprocess(dt, call.plan, st)
     IN /\ ~placeConjuncts(dt, call.plan, st).placed
        /\ st.placed = dt.tables
        /\ state' = [r.state EXCEPT !.plans = addPlan(st.plans, r.plan, r.state)]
        /\ stack' = Tail(stack)
  /\ UNCHANGED <<restVars, emitVars, catalog, dt, memo, pruned, lastPlan, numEnumerations>>

\* makeJoins, cutoff: the partial plan is abandoned.
Cutoff ==
  /\ dt.active /\ stack # <<>>
  /\ LET call == Head(stack)
         st == restore(state, call.entry)
     IN /\ ~placeConjuncts(dt, call.plan, st).placed
        /\ st.placed # dt.tables
        /\ isOverBest(st)
        /\ state' = st
        /\ pruned' = pruned \cup {call}
        /\ stack' = Tail(stack)
  /\ UNCHANGED <<restVars, emitVars, catalog, dt, memo, lastPlan, numEnumerations>>

\* makeJoins, last step: the next joins are made, those over the best are
\* dropped, and makeJoins is called for the others in turn.
TryNextJoins ==
  /\ dt.active /\ stack # <<>>
  /\ LET call == Head(stack)
         st == restore(state, call.entry)
         joins == addJoins(catalog, dt, call.plan, st)
         toTry == SelectSeq(joins, addNextJoin)
     IN /\ ~placeConjuncts(dt, call.plan, st).placed
        /\ st.placed # dt.tables
        /\ ~isOverBest(st)
        /\ state' = st
        /\ pruned' = pruned \cup
             { Call_makeJoins(joins[i].plan, joins[i].state) :
                 i \in { j \in DOMAIN joins : ~addNextJoin(joins[j]) } }
        /\ stack' = [i \in DOMAIN toTry |->
                       Call_makeJoins(toTry[i].plan, toTry[i].state)]
                    \o Tail(stack)
  /\ UNCHANGED <<restVars, emitVars, catalog, dt, memo, lastPlan, numEnumerations>>

\* makePlan, end: the PlanSet goes into the memo and the best plan for the
\* distribution asked for is returned.
FinishMakePlan ==
  /\ dt.active /\ stack = <<>>
  /\ memo' = memo \cup {[key |-> dt.key, plans |-> state.plans]}
  /\ lastPlan' = MemoResult(dt.key, dt.distribution, state.plans, FALSE)
  /\ dt' = NoDt
  /\ state' = NoState
  /\ UNCHANGED <<restVars, emitVars, catalog, stack, pruned, numEnumerations>>

NextSearch ==
  \/ \E key \in MemoKeys, distribution \in RequestedDistributions :
       MakePlanMemo(key, distribution)
  \/ \E key \in MemoKeys, distribution \in RequestedDistributions :
       MakePlanNew(key, distribution)
  \/ PlaceConjuncts
  \/ AddPlan
  \/ Cutoff
  \/ TryNextJoins
  \/ FinishMakePlan

SpecSearch == InitSearch /\ [][NextSearch]_vars

(***************************************************************************)
(* A PlanState under PlanStateSavers: savers are made and destroyed in     *)
(* scopes that nest, and between the two the state is changed the way the  *)
(* enumeration changes it.                                                 *)
(***************************************************************************)
MaxSavers == 2
MaxBuilds == 2
ScopedTables == {1, 2}

InitSaver ==
  /\ EmitIdle
  /\ SearchIdle
  /\ LogicalIdle
  /\ HistoryIdle
  /\ CostIdle
  /\ SubfieldsIdle
  /\ PushdownIdle
  /\ StatsIdle
  /\ FiltersIdle
  /\ scoped = PlanState([columns |-> {Col("a"), Col("c")}])
  /\ savers = <<>>

\* PlanStateSaver save(state); 'entry' remembers the whole state for the
\* properties.
MakeSaver ==
  /\ Len(savers) < MaxSavers
  /\ savers' = Append(savers, [saver |-> PlanStateSaver(scoped), entry |-> scoped])
  /\ UNCHANGED scoped
  /\ UNCHANGED <<emitVars, searchVars, othersThanSaver>>

\* A table is placed: its columns and its cost are added.
PlaceTable(table) ==
  /\ table \notin scoped.placed
  /\ scoped' = [scoped EXCEPT
                  !.placed = @ \cup {table},
                  !.columns = @ \cup Range(tableColumns(table)),
                  !.cost = addCost(@, Cost(table, 0, 2 * FanoutDen)),
                  !.debugPlacedTables = Append(@, table)]
  /\ UNCHANGED savers
  /\ UNCHANGED <<emitVars, searchVars, othersThanSaver>>

\* PlanState::addBuilds with the build of one hash join.
AddBuilds(table) ==
  /\ Len(scoped.builds) < MaxBuilds
  /\ scoped' = [scoped EXCEPT
                  !.builds = Append(@, HashBuild(TableScan(table), <<>>)),
                  !.cost = addCost(@, Cost(0, table, FanoutDen))]
  /\ UNCHANGED savers
  /\ UNCHANGED <<emitVars, searchVars, othersThanSaver>>

\* state.plans.addPlan(plan, state) for a plan of the tables placed.
AddScopedPlan(table) ==
  /\ table \in scoped.placed
  /\ scoped' = [scoped EXCEPT !.plans = addPlan(@, TableScan(table), scoped)]
  /\ UNCHANGED savers
  /\ UNCHANGED <<emitVars, searchVars, othersThanSaver>>

\* The innermost saver goes out of scope.
DestroySaver ==
  /\ savers # <<>>
  /\ scoped' = restore(scoped, savers[Len(savers)].saver)
  /\ savers' = SubSeq(savers, 1, Len(savers) - 1)
  /\ UNCHANGED <<emitVars, searchVars, othersThanSaver>>

NextSaver ==
  \/ MakeSaver
  \/ \E table \in ScopedTables : PlaceTable(table)
  \/ \E table \in ScopedTables : AddBuilds(table)
  \/ \E table \in ScopedTables : AddScopedPlan(table)
  \/ DestroySaver

SpecSaver == InitSaver /\ [][NextSaver]_vars

\* What the destruction of the innermost saver leaves: the fields it saved as
\* they were when it was made, the plans as they are now.
RestoredOnDestruction ==
  Len(savers') < Len(savers) =>
    LET entry == savers[Len(savers)].entry
    IN /\ scoped'.placed = entry.placed
       /\ scoped'.columns = entry.columns
       /\ scoped'.cost = entry.cost
       /\ scoped'.builds = entry.builds
       /\ scoped'.debugPlacedTables = entry.debugPlacedTables
       /\ scoped'.plans = scoped.plans

\* C25: when a PlanStateSaver is destroyed, placed, columns and cost of the
\* state are what they were when the saver was made, builds and
\* debugPlacedTables are cut back to what they held then, and the PlanSet is
\* not rolled back; this holds for every saver of a nest of savers.
C25_SaverRestores == [][RestoredOnDestruction]_vars

\* Inside the scope of a saver made with table 1 placed, a second table and
\* a build were added under an inner saver and a plan of both tables was
\* retained; the inner saver is gone and the plan is still there.
C25_Witness ==
  /\ Len(savers) = 1
  /\ savers[1].entry.placed = {1}
  /\ savers[1].entry.plans = EmptyPlanSet
  /\ Len(savers[1].entry.builds) = 1
  /\ scoped.placed = {1}
  /\ scoped.builds = savers[1].entry.builds
  /\ scoped.cost = savers[1].entry.cost
  /\ \E i \in DOMAIN scoped.plans.plans : scoped.plans.plans[i].tables = {1, 2}
  /\ scoped.plans.bestCostWithShuffle # 0

(***************************************************************************)
(* filterUpdated on one BaseTable: the table has some single-column        *)
(* filters and some other filters, exec::toSubfieldFilter converts a       *)
(* column filter, gives it up or throws, and the connector decides which   *)
(* of the filters it is handed it rejects.                                 *)
(***************************************************************************)
MaxFilterUpdates == 2

ColumnFilterExprs ==
  {Call("f1", <<Col("a")>>), Call("f2", <<Col("b")>>), Call("f3", <<Col("a")>>)}
TableFilterExprs ==
  {Call("g1", <<Col("a"), Col("b")>>), Call("g2", <<Col("b"), Col("a")>>)}

\* The lists without repetition of the members of a set.
Orderings(set) ==
  UNION { { seq \in [1..n -> set] : \A i, j \in 1..n : seq[i] = seq[j] => i = j }
          : n \in 0..Cardinality(set) }

InitFilters ==
  /\ EmitIdle
  /\ SearchIdle
  /\ LogicalIdle
  /\ HistoryIdle
  /\ CostIdle
  /\ SubfieldsIdle
  /\ PushdownIdle
  /\ SaverIdle
  /\ StatsIdle
  /\ \E filters \in Orderings(ColumnFilterExprs), filter \in Orderings(TableFilterExprs) :
       \E outcome \in [{filters[i].name : i \in DOMAIN filters} -> {"subfield", "none", "throws"}] :
         \E unsupported \in {{}, {"g1"}, {"f1", "f2"}} :
           baseTable = [made |-> TRUE, columnFilters |-> filters, filter |-> filter,
                        outcome |-> outcome, unsupported |-> unsupported]
  /\ tableHandle = NoTable

\* filterUpdated(table, updateSelectivity); 'filters' remembers what
\* createTableHandle was handed.
FilterUpdatedTable ==
  /\ IF tableHandle.made THEN tableHandle.calls < MaxFilterUpdates ELSE TRUE
  /\ LET passed == allFilters(baseTable.columnFilters, baseTable.filter,
                              baseTable.outcome)
         made == createTableHandle(baseTable.unsupported, passed)
     IN tableHandle' =
          [made |-> TRUE,
           calls |-> IF tableHandle.made THEN tableHandle.calls + 1 ELSE 1,
           filters |-> passed,
           leafHandles |-> setLeafHandle((1 :> NoHandle), 1, made.handle,
                                         made.rejectedFilters)]
  /\ UNCHANGED baseTable
  /\ UNCHANGED <<emitVars, searchVars, othersThanFilters>>

NextFilters == FilterUpdatedTable

SpecFilters == InitFilters /\ [][NextFilters]_vars

\* How often a filter is a conjunct of an expression handed over.
RECURSIVE Occurrences(_, _)
Occurrences(f, e) ==
  IF e.kind = "Call" /\ e.name = "and"
    THEN Occurrences(f, e.inputs[1]) + Occurrences(f, e.inputs[2])
  ELSE IF e = f THEN 1 ELSE 0

RECURSIVE PassedTimes(_, _)
PassedTimes(f, passed) ==
  IF passed = <<>> THEN 0
  ELSE Occurrences(f, Head(passed)) + PassedTimes(f, Tail(passed))

\* The number of conjuncts of an expression handed over.
RECURSIVE NumConjuncts(_)
NumConjuncts(e) ==
  IF e.kind = "Call" /\ e.name = "and"
    THEN NumConjuncts(e.inputs[1]) + NumConjuncts(e.inputs[2])
    ELSE 1

Position(seq, x) == CHOOSE i \in DOMAIN seq : seq[i] = x

Converting ==
  { f \in Range(baseTable.columnFilters) : baseTable.outcome[f.name] = "subfield" }
Remaining ==
  (Range(baseTable.columnFilters) \ Converting) \cup Range(baseTable.filter)

\* C29: filterUpdated hands every filter of the table to createTableHandle
\* exactly once: the column filters that convert to a subfield filter come
\* first, each an element of its own and in the order of columnFilters; the
\* column filters that do not convert or throw and the other filters of the
\* table are the conjuncts of one AND that is the last element, which is
\* left out when there is none; nothing else is handed over.
C29_EveryFilterPassedOnce ==
  tableHandle.made =>
    LET passed == tableHandle.filters
        numPushdown == Cardinality(Converting)
    IN /\ \A f \in Converting \cup Remaining :
            PassedTimes(toTypedExpr(f), passed) = 1
       /\ Len(passed) = numPushdown + (IF Remaining = {} THEN 0 ELSE 1)
       /\ \A f \in Converting :
            \E i \in 1..numPushdown : passed[i] = toTypedExpr(f)
       /\ \A f, g \in Converting :
            Position(baseTable.columnFilters, f) < Position(baseTable.columnFilters, g)
              => Position(passed, toTypedExpr(f)) < Position(passed, toTypedExpr(g))
       /\ Remaining # {} =>
            /\ \A f \in Remaining :
                 Occurrences(toTypedExpr(f), passed[Len(passed)]) = 1
            /\ NumConjuncts(passed[Len(passed)]) = Cardinality(Remaining)
       /\ Range(tableHandle.leafHandles[1].rejectedFilters) \subseteq Range(passed)

\* filterUpdated ran on a table with three column filters, of which the first
\* and the last convert and the second throws, and two other filters: three
\* filters were handed over, the last one an AND.
C29_Witness ==
  /\ tableHandle.made
  /\ Len(baseTable.columnFilters) = 3
  /\ baseTable.outcome[baseTable.columnFilters[1].name] = "subfield"
  /\ baseTable.outcome[baseTable.columnFilters[2].name] = "throws"
  /\ baseTable.outcome[baseTable.columnFilters[3].name] = "subfield"
  /\ Len(baseTable.filter) = 2
  /\ Len(tableHandle.filters) = 3
  /\ tableHandle.filters[3].name = "and"
  /\ NumConjuncts(tableHandle.filters[3]) = 3

(***************************************************************************)
(* One connector Column used by several threads.  A ColumnStatistics       *)
(* object is a positive number, nullptr is 0.  Each thread makes calls one *)
(* after the other; a call that takes mutex_ is a sequence of steps, one   *)
(* per statement, and the steps of different threads interleave.  The      *)
(* threads make MaxCalls calls between them.                               *)
(***************************************************************************)
MaxThreads == 3
MaxCalls == 4
MaxObjects == 4

nullptr == 0
NoThread == 0
Threads == 1..MaxThreads

IdleCaller == [pc |-> "idle", call |-> "none", arg |-> nullptr, calls |-> 0, results |-> {}]

\* Column(name, type), and a column that setStats was called for before the
\* threads start.
NewColumn ==
  [made |-> TRUE, latestStats_ |-> nullptr, allStats_ |-> <<>>, mutex_ |-> NoThread,
   held |-> {nullptr}, numObjects |-> 0, initial |-> 0]
ColumnWithStats ==
  [made |-> TRUE, latestStats_ |-> 1, allStats_ |-> <<1>>, mutex_ |-> NoThread,
   held |-> {nullptr, 1}, numObjects |-> 1, initial |-> 1]

InitStats ==
  /\ EmitIdle
  /\ SearchIdle
  /\ LogicalIdle
  /\ HistoryIdle
  /\ CostIdle
  /\ SubfieldsIdle
  /\ PushdownIdle
  /\ SaverIdle
  /\ FiltersIdle
  /\ statsColumn \in {NewColumn, ColumnWithStats}
  /\ callers = [t \in Threads |-> IdleCaller]

\* A variant in which the guard does not wait for the mutex.
lock_guard_NoWait(mutex_) == TRUE

\* std::lock_guard<std::mutex> l(mutex_) goes on when no thread holds mutex_.
lock_guard(mutex_) == mutex_ = NoThread

\* What a read of latestStats_ without the mutex can give: in builds with the
\* thread sanitizer the member is a std::atomic and the read gives the value it
\* holds; in the other builds it is a plain pointer that is read while another
\* thread may write it, and the read gives a value the member holds or held.
unlockedRead(col) == col.held

\* The calls the threads 1..t made or are making.
RECURSIVE NumCalls(_)
NumCalls(t) == IF t = 0 THEN 0 ELSE callers[t].calls + NumCalls(t - 1)

CanCall(t) ==
  /\ statsColumn.made
  /\ callers[t].pc = "idle"
  /\ NumCalls(MaxThreads) < MaxCalls

\* Column::stats, the whole call.
Stats(t) ==
  /\ CanCall(t)
  /\ \E read \in unlockedRead(statsColumn) :
       callers' = [callers EXCEPT ![t].calls = @ + 1,
                                  ![t].results = @ \cup {<<"stats", read>>}]
  /\ UNCHANGED statsColumn
  /\ UNCHANGED <<emitVars, searchVars, othersThanStats>>

\* A thread enters Column::mutableStats.
CallMutableStats(t) ==
  /\ CanCall(t)
  /\ callers' = [callers EXCEPT ![t].pc = "lock", ![t].call = "mutableStats",
                                ![t].calls = @ + 1]
  /\ UNCHANGED statsColumn
  /\ UNCHANGED <<emitVars, searchVars, othersThanStats>>

\* A thread enters Column::setStats with a new object or with nullptr.
CallSetStats(t, isNull) ==
  /\ CanCall(t)
  /\ isNull \/ statsColumn.numObjects < MaxObjects
  /\ callers' = [callers EXCEPT
                   ![t].pc = "lock", ![t].call = "setStats", ![t].calls = @ + 1,
                   ![t].arg = IF isNull THEN nullptr ELSE statsColumn.numObjects + 1]
  /\ statsColumn' = [statsColumn EXCEPT
                       !.numObjects = IF isNull THEN @ ELSE @ + 1]
  /\ UNCHANGED <<emitVars, searchVars, othersThanStats>>

\* std::lock_guard<std::mutex> l(mutex_)
Lock(t) ==
  /\ statsColumn.made
  /\ callers[t].pc = "lock"
  /\ lock_guard(statsColumn.mutex_)
  /\ statsColumn' = [statsColumn EXCEPT !.mutex_ = t]
  /\ callers' = [callers EXCEPT
                   ![t].pc = IF callers[t].call = "mutableStats" THEN "check"
                             ELSE "push"]
  /\ UNCHANGED <<emitVars, searchVars, othersThanStats>>

\* if (!latestStats_), and std::make_unique<ColumnStatistics>() when it is null
CheckLatest(t) ==
  /\ statsColumn.made
  /\ callers[t].pc = "check"
  /\ IF statsColumn.latestStats_ = nullptr
       THEN /\ statsColumn.numObjects < MaxObjects
            /\ callers' = [callers EXCEPT ![t].pc = "push",
                                          ![t].arg = statsColumn.numObjects + 1]
            /\ statsColumn' = [statsColumn EXCEPT !.numObjects = @ + 1]
       ELSE /\ callers' = [callers EXCEPT ![t].pc = "return"]
            /\ UNCHANGED statsColumn
  /\ UNCHANGED <<emitVars, searchVars, othersThanStats>>

\* allStats_.push_back(...)
PushBack(t) ==
  /\ statsColumn.made
  /\ callers[t].pc = "push"
  /\ statsColumn' = [statsColumn EXCEPT !.allStats_ = Append(@, callers[t].arg)]
  /\ callers' = [callers EXCEPT ![t].pc = "assign"]
  /\ UNCHANGED <<emitVars, searchVars, othersThanStats>>

\* latestStats_ = allStats_.back().get()
AssignLatest(t) ==
  /\ statsColumn.made
  /\ callers[t].pc = "assign"
  /\ LET back == statsColumn.allStats_[Len(statsColumn.allStats_)]
     IN statsColumn' = [statsColumn EXCEPT !.latestStats_ = back,
                                           !.held = @ \cup {back}]
  /\ callers' = [callers EXCEPT
                   ![t].pc = IF callers[t].call = "mutableStats" THEN "return"
                             ELSE "unlock"]
  /\ UNCHANGED <<emitVars, searchVars, othersThanStats>>

\* return latestStats_ of mutableStats
ReturnLatest(t) ==
  /\ statsColumn.made
  /\ callers[t].pc = "return"
  /\ callers' = [callers EXCEPT ![t].pc = "unlock",
                                ![t].arg = statsColumn.latestStats_]
  /\ UNCHANGED statsColumn
  /\ UNCHANGED <<emitVars, searchVars, othersThanStats>>

\* The lock_guard goes out of scope and the call is over.
Unlock(t) ==
  /\ statsColumn.made
  /\ callers[t].pc = "unlock"
  /\ statsColumn' = [statsColumn EXCEPT !.mutex_ = NoThread]
  /\ callers' = [callers EXCEPT
                   ![t].pc = "idle", ![t].call = "none", ![t].arg = nullptr,
                   ![t].results = @ \cup {<<callers[t].call, callers[t].arg>>}]
  /\ UNCHANGED <<emitVars, searchVars, othersThanStats>>

NextStats ==
  \E t \in Threads :
    \/ Stats(t)
    \/ CallMutableStats(t)
    \/ \E isNull \in BOOLEAN : CallSetStats(t, isNull)
    \/ Lock(t)
    \/ CheckLatest(t)
    \/ PushBack(t)
    \/ AssignLatest(t)
    \/ ReturnLatest(t)
    \/ Unlock(t)

SpecStats == InitStats /\ [][NextStats]_vars

\* The pointers the calls made so far returned.
Returned(call) ==
  { r[2] : r \in { r \in UNION { callers[t].results : t \in Threads } : r[1] = call } }

\* nullptr, or an object that allStats_ owns.
Owned(pointer) ==
  pointer = nullptr \/ \E i \in DOMAIN statsColumn.allStats_ : statsColumn.allStats_[i] = pointer

AllCompleted == \A t \in Threads : callers[t].pc = "idle"

NoSetStatsCalled ==
  /\ statsColumn.initial = 0
  /\ Returned("setStats") = {}
  /\ \A t \in Threads : callers[t].call # "setStats"

StatsConsistent ==
  statsColumn.made =>
    /\ \A pointer \in Returned("stats") \cup Returned("mutableStats") : Owned(pointer)
    /\ AllCompleted /\ statsColumn.allStats_ # <<>> =>
         statsColumn.latestStats_ = statsColumn.allStats_[Len(statsColumn.allStats_)]
    /\ AllCompleted /\ NoSetStatsCalled /\ Returned("mutableStats") # {} =>
         /\ Len(statsColumn.allStats_) = 1
         /\ Returned("mutableStats") = {statsColumn.allStats_[1]}
         /\ statsColumn.allStats_[1] # nullptr

\* No step removes or replaces an element of allStats_.
StatsKept ==
  statsColumn.made =>
    /\ Len(statsColumn'.allStats_) >= Len(statsColumn.allStats_)
    /\ SubSeq(statsColumn'.allStats_, 1, Len(statsColumn.allStats_)) = statsColumn.allStats_

\* C30: however the steps of setStats, mutableStats and stats calls of several
\* threads on one Column interleave, every pointer that stats or mutableStats
\* returned is null or an object that allStats_ still owns, and no step takes
\* an object out of allStats_; when no call is under way and allStats_ is not
\* empty, latestStats_ is its last element; when a column without statistics
\* got mutableStats calls and no setStats call, one object was made and every
\* mutableStats call returned it.
C30_StatsUnderConcurrency == [](StatsConsistent) /\ [][StatsKept]_vars

\* Three threads called mutableStats and stats on a column without
\* statistics: one object was made, two threads got it from mutableStats and
\* one thread read null before it was there.
C30_Witness ==
  /\ statsColumn.made
  /\ AllCompleted
  /\ NoSetStatsCalled
  /\ Len(statsColumn.allStats_) = 1
  /\ <<"mutableStats", 1>> \in callers[1].results
  /\ <<"mutableStats", 1>> \in callers[2].results
  /\ callers[3].results = {<<"stats", nullptr>>, <<"stats", 1>>}

(***************************************************************************)
(* Observations on emitted plans, used by the properties below.            *)
(***************************************************************************)
RECURSIVE NodesOf(_)
NodesOf(node) ==
  {node} \cup UNION { NodesOf(node.sources[i]) : i \in DOMAIN node.sources }

\* The nodes of a plan without branches, leaf first.
RECURSIVE NodeChain(_)
NodeChain(node) ==
  IF node.sources = <<>> THEN <<node>>
  ELSE NodeChain(node.sources[1]) \o <<node>>

IsChain(node) == \A n \in NodesOf(node) : Len(n.sources) <= 1

\* What a node of a chain does, without its id and its sources.
Shape(node) ==
  CASE node.kind = "Limit" ->
         <<IF node.isPartial THEN "partial limit" ELSE "final limit",
           node.offset, node.count>>
    [] node.kind = "TopN" -> <<"TopN", node.keys, node.sortOrder, node.count>>
    [] node.kind = "MergeExchange" -> <<"MergeExchange", node.keys, node.sortOrder>>
    [] node.kind = "PartitionedOutput" ->
         <<"PartitionedOutput", node.partitionFunction, node.numPartitions>>
    [] OTHER -> <<node.kind>>

\* The shapes of a chain, leaf first; the projection that renames the scan
\* columns is left out.
ChainShape(node) ==
  LET chain == NodeChain(node)
      kept == SelectSeq(chain, LAMBDA n :
                ~(n.kind = "Project" /\ n.sources[1].kind = "TableScan"))
  IN [i \in DOMAIN kept |-> Shape(kept[i])]

RECURSIVE ScannedTables(_)
ScannedTables(op) ==
  IF op.relType = "kTableScan" THEN {op.table}
  ELSE UNION { ScannedTables(op.inputs[i]) : i \in DOMAIN op.inputs }

Emitted == veloxPlan.status = "ok"
Lowered == veloxPlan.status # "none"

\* Every scan of 'table' in 'node' has a Filter directly above it that
\* evaluates exactly 'filters'.
FilterAboveScans(node, table, filters) ==
  /\ ~(node.kind = "TableScan" /\ node.table = table)
  /\ \A n \in NodesOf(node) : \A i \in DOMAIN n.sources :
       (n.sources[i].kind = "TableScan" /\ n.sources[i].table = table)
         => /\ n.kind = "Filter"
            /\ Conjuncts(n.filter) = UNION { Conjuncts(f) : f \in Range(filters) }

(***************************************************************************)
(* C1: a scan whose leaf handle was recorded with rejected filters is      *)
(* lowered without error, and the emitted plan evaluates exactly the       *)
(* rejected filters in a Filter node directly above that scan.             *)
(***************************************************************************)
C1_RejectedFiltersAboveScan ==
  \A table \in BaseTables :
    ( /\ Lowered
      /\ table \in ScannedTables(veloxPlan.input)
      /\ veloxPlan.leafHandles[table].rejectedFilters # <<>> )
    => /\ Emitted
       /\ \A i \in DOMAIN veloxPlan.fragments :
            FilterAboveScans(veloxPlan.fragments[i].planNode, table,
                             veloxPlan.leafHandles[table].rejectedFilters)

(***************************************************************************)
(* C6: in the list of fragments every input stage names, by task prefix,   *)
(* a fragment that is earlier in the list; the top fragment is last; the   *)
(* input-stage relation has no cycle.                                      *)
(***************************************************************************)
InputPrefixes(fragment) ==
  { fragment.inputStages[k].taskPrefix : k \in DOMAIN fragment.inputStages }

\* The positions from which fragment i can be reached over input stages.
RECURSIVE Producers(_, _, _)
Producers(fragments, i, fuel) ==
  LET direct == { j \in DOMAIN fragments :
                    fragments[j].taskPrefix \in InputPrefixes(fragments[i]) }
  IN IF fuel = 0 THEN direct
     ELSE direct \cup UNION { Producers(fragments, j, fuel - 1) : j \in direct }

C6_InputStagesEarlier ==
  Emitted =>
    LET F == veloxPlan.fragments
    IN /\ \A i \in DOMAIN F : \A prefix \in InputPrefixes(F[i]) :
            \E j \in 1..(i - 1) : F[j].taskPrefix = prefix
       /\ \A i \in DOMAIN F :
            (\E j \in DOMAIN F : F[i].taskPrefix \in InputPrefixes(F[j]))
              <=> i # Len(F)
       /\ \A i \in DOMAIN F : i \notin Producers(F, i, Len(F))

C6_Witness ==
  /\ Emitted
  /\ Len(veloxPlan.fragments) >= 3
  /\ \E i \in DOMAIN veloxPlan.fragments :
       /\ veloxPlan.fragments[i].inputStages # <<>>
       /\ \E j \in DOMAIN veloxPlan.fragments :
            veloxPlan.fragments[i].taskPrefix \in InputPrefixes(veloxPlan.fragments[j])


(***************************************************************************)
(* Limits.  A plan Scan -> Limit(o, l) is the RelationOp Limit over a      *)
(* TableScan.                                                              *)
(***************************************************************************)
IsLimitOverScan(op) ==
  op.relType = "kLimit" /\ op.inputs[1].relType = "kTableScan"

\* The row count a partial limit needs so that the final limit can skip o
\* rows and return l: o + l, or the maximum where the sum exceeds it.
PartialCount(o, l) == IF o + l > kMaxLimit THEN kMaxLimit ELSE o + l

LimitNodesOf(fragments) ==
  UNION { { n \in NodesOf(fragments[i].planNode) : n.kind = "Limit" } :
            i \in DOMAIN fragments }

C8_PartialCountSaturates ==
  (Emitted /\ veloxPlan.input.relType = "kLimit")
  => LET F == veloxPlan.fragments
         o == veloxPlan.input.offset
         l == veloxPlan.input.limit
         top == F[Len(F)].planNode
     IN /\ \A n \in LimitNodesOf(F) :
             n.isPartial =>
               /\ n.offset = 0
               /\ n.count = PartialCount(o, l)
               /\ n.count >= 0 /\ n.count <= kMaxLimit
               /\ n.count >= Max(o, l)
        /\ top.kind = "Limit" /\ ~top.isPartial
        /\ top.offset = o /\ top.count = l
        /\ (l = kMaxLimit =>
              \A n \in LimitNodesOf(F) : n.isPartial => n.count = kMaxLimit)

C8_Witness ==
  /\ Emitted
  /\ veloxPlan.input.relType = "kLimit"
  /\ veloxPlan.input.offset + veloxPlan.input.limit > kMaxLimit
  /\ veloxPlan.input.limit < kMaxLimit
  /\ \E n \in LimitNodesOf(veloxPlan.fragments) :
       n.isPartial /\ n.count = kMaxLimit

IsOrderByOverScan(op) ==
  /\ op.relType = "kProject"
  /\ op.inputs[1].relType = "kOrderBy"
  /\ op.inputs[1].inputs[1].relType = "kTableScan"

C10_DistributedTopNShape ==
  ( /\ Emitted
    /\ IsOrderByOverScan(veloxPlan.input)
    /\ rootLimit >= 0
    /\ veloxPlan.options.numWorkers > 1 )
  => LET F == veloxPlan.fragments
         order == veloxPlan.input.inputs[1].distribution
         keys == [i \in DOMAIN order.order |-> order.order[i].name]
         orders == sortOrders(order.orderType)
     IN /\ Len(F) = 2
        /\ IsChain(F[1].planNode) /\ IsChain(F[2].planNode)
        /\ ChainShape(F[1].planNode) =
             << <<"TableScan">>,
                <<"TopN", keys, orders, PartialCount(rootOffset, rootLimit)>>,
                <<"LocalMerge">>,
                <<"PartitionedOutput", "gather", 1>> >>
        /\ F[2].width = 1
        /\ ChainShape(F[2].planNode) =
             << <<"MergeExchange", keys, orders>>,
                <<"final limit", rootOffset, rootLimit>>,
                <<"Project">> >>
        /\ InputPrefixes(F[2]) = {F[1].taskPrefix}


(***************************************************************************)
(* Observations on the search, used by the properties below.               *)
(***************************************************************************)
\* The total costs of all complete plans that makeJoins(plan, state) can
\* reach when nothing is cut off.
RECURSIVE completionCosts(_, _, _, _)
completionCosts(cat, table, plan, st) ==
  LET filtered == placeConjuncts(table, plan, st)
      joins == addJoins(cat, table, plan, st)
  IN IF filtered.placed
       THEN completionCosts(cat, table, filtered.plan, filtered.state)
     ELSE IF st.placed = table.tables
       THEN {totalCost(addPostprocess(table, plan, st).state.cost)}
     ELSE UNION { completionCosts(cat, table, joins[i].plan, joins[i].state) :
                    i \in DOMAIN joins }

PlanCosts(planSet) ==
  { totalCost(planSet.plans[i].cost) : i \in DOMAIN planSet.plans }

SearchDone == lastPlan.made /\ ~lastPlan.fromMemo

MemoEntry(key) == CHOOSE entry \in memo : entry.key = key

\* Every PlanSet the search holds.
PlanSets ==
  { entry.plans : entry \in memo } \cup (IF dt.active THEN {state.plans} ELSE {})

RECURSIVE opsOf(_)
opsOf(op) == {op} \cup UNION { opsOf(op.inputs[i]) : i \in DOMAIN op.inputs }

\* Every plan the search holds: under construction, retained, or returned.
SearchPlans ==
  { stack[i].plan : i \in DOMAIN stack }
  \cup UNION { { planSet.plans[i].op : i \in DOMAIN planSet.plans } :
                 planSet \in PlanSets }
  \cup (IF lastPlan.made THEN {lastPlan.plan.op} ELSE {})

(***************************************************************************)
(* C2: when the search of a derived table has ended, no partial plan that  *)
(* was abandoned because isOverBest held has a completion, by further      *)
(* joins, filters and postprocessing, that costs strictly less than the    *)
(* cheapest plan retained for the derived table.                           *)
(***************************************************************************)
C2_CutoffSound ==
  SearchDone =>
    LET table == makeDt(lastPlan.key, lastPlan.distribution)
        retained == PlanCosts(MemoEntry(lastPlan.key).plans)
        cheapestRetained == CHOOSE kept \in retained :
                              \A other \in retained : kept <= other
    IN \A call \in pruned :
         \A cost \in completionCosts(catalog, table, call.plan,
                                     restore(PlanState(table), call.entry)) :
           ~(cost < cheapestRetained)

C2_Witness ==
  /\ SearchDone
  /\ pruned # {}
  /\ \E call \in pruned : call.entry.placed # lastPlan.key.tables

(***************************************************************************)
(* C3: in every PlanSet, no two retained plans have the same output        *)
(* distribution while one costs strictly less than the other.              *)
(***************************************************************************)
C3_RetainedNonDominated ==
  \A planSet \in PlanSets :
    \A i, j \in DOMAIN planSet.plans :
      (i # j /\ isSamePartition(planSet.plans[i].op.distribution,
                                planSet.plans[j].op.distribution))
        => ~(totalCost(planSet.plans[j].cost) < totalCost(planSet.plans[i].cost))

C3_Witness ==
  /\ dt.active
  /\ Len(state.plans.plans) >= 2
  /\ stack # <<>>

(***************************************************************************)
(* C4: a MemoKey is enumerated at most once.  A makePlan call for a key in *)
(* the memo starts no enumeration and returns a retained plan: the         *)
(* cheapest with the distribution asked for, without needsShuffle, or,     *)
(* where no retained plan has that distribution, the cheapest of all with  *)
(* needsShuffle set.                                                       *)
(***************************************************************************)
C4_MemoPlannedOnce ==
  /\ \A key \in MemoKeys : numEnumerations[key] <= 1
  /\ (lastPlan.made /\ lastPlan.fromMemo) =>
       /\ ~dt.active /\ stack = <<>>
       /\ numEnumerations[lastPlan.key] = 1
       /\ LET plans == MemoEntry(lastPlan.key).plans.plans
              matching == { i \in DOMAIN plans :
                              isSamePartition(plans[i].op.distribution,
                                              lastPlan.distribution) }
              among == IF matching # {} THEN matching ELSE DOMAIN plans
          IN /\ \E i \in among : plans[i] = lastPlan.plan
             /\ \A i \in among :
                  totalCost(lastPlan.plan.cost) <= totalCost(plans[i].cost)
             /\ lastPlan.needsShuffle <=> (matching = {})

C4_Witness ==
  /\ lastPlan.made /\ lastPlan.fromMemo
  /\ ~lastPlan.needsShuffle
  /\ \E cost \in PlanCosts(MemoEntry(lastPlan.key).plans) :
       cost < totalCost(lastPlan.plan.cost)

(***************************************************************************)
(* C5: a conjunct counts as placed only when the columns it references are *)
(* in state.columns, and every Filter in a plan under construction,        *)
(* retained or returned references only columns of its input.              *)
(***************************************************************************)
C5_FilterColumnsProvided ==
  /\ \A i \in DOMAIN stack :
       \A c \in stack[i].entry.placedConjuncts :
         exprColumns(c) \subseteq stack[i].entry.columns
  /\ \A plan \in SearchPlans :
       \A op \in opsOf(plan) :
         op.relType = "kFilter" =>
           \A i \in DOMAIN op.exprs :
             exprColumns(op.exprs[i]) \subseteq Range(op.inputs[1].columns)

C5_Witness ==
  \E entry \in memo : \E i \in DOMAIN entry.plans.plans :
    \E op \in opsOf(entry.plans.plans[i].op) :
      /\ op.relType = "kFilter"
      /\ op.inputs[1].relType = "kJoin"
      /\ Call("p12", <<Col("b"), Col("c")>>) \in Range(op.exprs)

\* The PlanStates that makeJoins runs with: the state as it is and as each
\* pending call will find it.
SearchStates ==
  IF dt.active
    THEN {state} \cup { restore(state, stack[i].entry) : i \in DOMAIN stack }
  ELSE {}

EmittedNodes ==
  UNION { NodesOf(veloxPlan.fragments[i].planNode) : i \in DOMAIN veloxPlan.fragments }

AggregationNodes == { n \in EmittedNodes : n.kind = "Aggregation" }

\* The projections directly above an aggregation.
ProjectionsAbove(agg) ==
  { n \in EmittedNodes : n.kind = "Project" /\ n.sources[1] = agg }

exprsOf(named) == { named[i].expr : i \in DOMAIN named }

\* The positions of the projection 'node' that compute 'expr'.
ComputedAt(node, expr) ==
  IF node.kind # "Project" THEN {}
  ELSE { i \in DOMAIN node.exprs : node.exprs[i] = toTypedExpr(expr) }

EmittedQuery(query) == Emitted /\ veloxPlan.input = translateAggregation(query)

(***************************************************************************)
(* C11: for an aggregation query with structurally equal grouping keys or  *)
(* structurally equal aggregates, the emitted aggregation has one grouping *)
(* key per distinct key expr (computed once below it) and one aggregate    *)
(* per distinct call, and the projection above it outputs the requested    *)
(* columns in the requested order, each reading its deduplicated column.   *)
(***************************************************************************)
C11_AggregationDeduplicated ==
  \A query \in AggregationQueries :
    EmittedQuery(query) =>
      /\ Cardinality(AggregationNodes) = 1
      /\ \A agg \in AggregationNodes :
           LET requested == query.keys \o query.aggregates
               numKeys == Len(query.keys)
           IN /\ Len(agg.keys) = Cardinality(exprsOf(query.keys))
              /\ Cardinality(Range(agg.keys)) = Len(agg.keys)
              /\ \A e \in exprsOf(query.keys) :
                   e.type # "kColumn" =>
                     Cardinality(ComputedAt(agg.sources[1], e)) = 1
              /\ Len(agg.aggregates) = Cardinality(exprsOf(query.aggregates))
              /\ Cardinality(Range(agg.aggregates)) = Len(agg.aggregates)
              /\ Cardinality(ProjectionsAbove(agg)) = 1
              /\ \A top \in ProjectionsAbove(agg) :
                   /\ Len(top.names) = Len(requested)
                   /\ \A i \in DOMAIN requested :
                        /\ top.names[i] = requested[i].name
                        /\ top.exprs[i] = toTypedExpr(Col(
                             IF i <= numKeys
                               THEN firstName(query.keys, requested[i].expr)
                               ELSE firstName(query.aggregates, requested[i].expr)))
                   /\ \A i, j \in DOMAIN requested :
                        (i <= numKeys <=> j <= numKeys) =>
                          (top.exprs[i] = top.exprs[j]
                             <=> requested[i].expr = requested[j].expr)

C11_Witness ==
  \E query \in AggregationQueries :
    /\ EmittedQuery(query)
    /\ veloxPlan.options.numWorkers = 2
    /\ Cardinality(exprsOf(query.keys)) < Len(query.keys)
    /\ Cardinality(exprsOf(query.aggregates)) < Len(query.aggregates)
    /\ \E agg \in AggregationNodes : Len(agg.keys) = 1 /\ Len(agg.aggregates) = 1

(***************************************************************************)
(* C12: every distinct FILTER condition of the aggregates is computed once *)
(* below the aggregation and all aggregates with that condition use that   *)
(* one column as their mask; aggregates with different conditions use      *)
(* different masks; aggregates equal in function, arguments and condition  *)
(* are one aggregate, whose column every merged output name reads.         *)
(***************************************************************************)
C12_MaskComputedOnce ==
  \A query \in AggregationQueries :
    EmittedQuery(query) =>
      \A agg \in AggregationNodes :
        LET kept == distinctExprs(query.aggregates)
            below == agg.sources[1]
            numKeys == Len(query.keys)
        IN /\ Len(agg.aggregates) = Len(kept)
           /\ \A k \in DOMAIN kept :
                LET condition == kept[k].expr.condition
                    mask == agg.aggregates[k].mask
                IN IF condition = <<>> THEN mask = ""
                   ELSE IF condition[1].type = "kColumn"
                     THEN mask = condition[1].name
                   ELSE /\ Cardinality(ComputedAt(below, condition[1])) = 1
                        /\ \A i \in ComputedAt(below, condition[1]) :
                             mask = below.names[i]
           /\ \A k, l \in DOMAIN kept :
                (agg.aggregates[k].mask = agg.aggregates[l].mask)
                  <=> (kept[k].expr.condition = kept[l].expr.condition)
           /\ \A top \in ProjectionsAbove(agg) :
                \A i \in DOMAIN query.aggregates :
                  \A k \in DOMAIN kept :
                    kept[k].expr = query.aggregates[i].expr =>
                      top.exprs[numKeys + i] = toTypedExpr(Col(kept[k].name))

C12_Witness ==
  \E query \in AggregationQueries :
    /\ EmittedQuery(query)
    /\ \E agg \in AggregationNodes :
         /\ Len(agg.aggregates) < Len(query.aggregates)
         /\ \E k, l \in DOMAIN agg.aggregates :
              /\ k # l
              /\ agg.aggregates[k].mask # ""
              /\ agg.aggregates[l].mask # ""
              /\ agg.aggregates[k].mask # agg.aggregates[l].mask
    /\ \E other \in AggregationQueries :
         \E i, j \in DOMAIN other.aggregates :
           /\ other.aggregates[i].expr.name # other.aggregates[j].expr.name
           /\ other.aggregates[i].expr.condition # <<>>
           /\ other.aggregates[i].expr.condition = other.aggregates[j].expr.condition

(***************************************************************************)
(* Observations on fragments and their exchanges.                          *)
(***************************************************************************)
\* The fragments whose output 'fragment' reads through its input stages.
ProducersOf(fragment) ==
  { producer \in Range(veloxPlan.fragments) :
      \E i \in DOMAIN fragment.inputStages :
        fragment.inputStages[i].taskPrefix = producer.taskPrefix }

\* 'fragment' reads an exchange whose producer sends to a single destination.
ConsumesGather(fragment) ==
  \E producer \in ProducersOf(fragment) :
    producer.planNode.partitionFunction = "gather"

(***************************************************************************)
(* C13: every fragment of an emitted plan, the top fragment included, has  *)
(* width numWorkers unless it consumes a gather exchange, and width 1 if   *)
(* it does.                                                                *)
(***************************************************************************)
C13_FragmentWidths ==
  Emitted =>
    \A i \in DOMAIN veloxPlan.fragments :
      LET fragment == veloxPlan.fragments[i]
      IN fragment.width = IF ConsumesGather(fragment) THEN 1
                          ELSE veloxPlan.options.numWorkers

(***************************************************************************)
(* Observations on partitioned outputs.                                    *)
(***************************************************************************)
\* The exprs the keys of a PartitionedOutput node stand for: a key that names
\* a column of the projection below it is that column's expr.
ResolvedKeys(node) ==
  LET below == node.sources[1]
  IN [i \in DOMAIN node.keys |->
        IF below.kind = "Project" /\ \E j \in DOMAIN below.names :
                                         below.names[j] = node.keys[i]
          THEN below.exprs[CHOOSE j \in DOMAIN below.names :
                             below.names[j] = node.keys[i]]
          ELSE toTypedExpr(Col(node.keys[i]))]

\* How a source fragment partitions its output.
OutputShape(fragment) ==
  LET node == fragment.planNode
  IN CASE node.partitionFunction = "broadcast" ->
            [function |-> "broadcast", kind |-> node.outputKind, keys |-> <<>>,
             destinations |-> fragment.numBroadcastDestinations]
       [] node.partitionFunction = "gather" ->
            [function |-> "gather", kind |-> node.outputKind, keys |-> <<>>,
             destinations |-> node.numPartitions]
       [] OTHER ->
            [function |-> node.partitionFunction, kind |-> node.outputKind,
             keys |-> ResolvedKeys(node), destinations |-> node.numPartitions]

\* The partitioning the distribution of a Repartition asks for.
DistributionShape(distribution, numWorkers) ==
  IF distribution.isBroadcast
    THEN [function |-> "broadcast", kind |-> "kBroadcast", keys |-> <<>>,
          destinations |-> numWorkers]
  ELSE IF distribution.partition = <<>>
    THEN [function |-> "gather", kind |-> "kPartitioned", keys |-> <<>>,
          destinations |-> 1]
  ELSE [function |-> "hash", kind |-> "kPartitioned",
        keys |-> [i \in DOMAIN distribution.partition |->
                    toTypedExpr(distribution.partition[i])],
        destinations |-> numWorkers]

\* The partitionings a plan asks for when run on numWorkers workers: one per
\* Repartition, and a gather below every OrderBy and distributed Limit.
RECURSIVE ExpectedShapes(_, _)
ExpectedShapes(op, numWorkers) ==
  (CASE op.relType = "kRepartition" ->
          {DistributionShape(op.distribution, numWorkers)}
     [] op.relType = "kOrderBy" \/ (op.relType = "kLimit" /\ numWorkers > 1) ->
          {DistributionShape(gatherDistribution(<<>>, <<>>), numWorkers)}
     [] OTHER -> {})
    \cup UNION { ExpectedShapes(op.inputs[i], numWorkers) : i \in DOMAIN op.inputs }

SourceFragments ==
  { fragment \in Range(veloxPlan.fragments) :
      fragment.planNode.kind = "PartitionedOutput" }

\* The plan that is lowered: gathered when there is more than one worker.
GatheredInput ==
  IF veloxPlan.options.numWorkers > 1 THEN addGather(veloxPlan.input)
  ELSE veloxPlan.input

(***************************************************************************)
(* C14: the partitioned output of a Repartition broadcasts to all          *)
(* numWorkers workers when the distribution is broadcast, with or without  *)
(* partition keys; otherwise it gathers to one destination when there are  *)
(* no partition keys; otherwise it hashes the distribution's partition     *)
(* keys into numWorkers partitions.                                        *)
(***************************************************************************)
C14_PartitionFunction ==
  Emitted =>
    { OutputShape(fragment) : fragment \in SourceFragments }
      = ExpectedShapes(GatheredInput, veloxPlan.options.numWorkers)

C14_Witness ==
  /\ Emitted
  /\ veloxPlan.options.numWorkers = 2
  /\ \E fragment \in SourceFragments :
       /\ fragment.planNode.partitionFunction = "broadcast"
       /\ fragment.planNode.keys # <<>>
       /\ fragment.numBroadcastDestinations = 2
  /\ \E fragment \in SourceFragments :
       /\ fragment.planNode.partitionFunction = "gather"
       /\ fragment.planNode.numPartitions = 1

(***************************************************************************)
(* Observations on the recorded cost estimates.                            *)
(***************************************************************************)
RECURSIVE RelationOpsOf(_)
RelationOpsOf(op) ==
  {op} \cup UNION { RelationOpsOf(op.inputs[i]) : i \in DOMAIN op.inputs }

\* The kinds of plan node a RelationOp is emitted as.
NodeKinds(relType) ==
  CASE relType = "kTableScan" -> {"TableScan"}
    [] relType = "kFilter" -> {"Filter"}
    [] relType = "kProject" -> {"Project"}
    [] relType = "kJoin" -> {"HashJoin", "NestedLoopJoin"}
    [] relType = "kAggregation" -> {"Aggregation"}
    [] relType = "kOrderBy" -> {"OrderBy", "TopN"}
    [] relType = "kRepartition" -> {"PartitionedOutput"}
    [] OTHER -> {}

\* The Cost of 'op' is recorded under the id of a node emitted for it.
HasEstimate(op) ==
  \E estimate \in veloxPlan.costEstimates :
    /\ estimate.cost = opCost(op)
    /\ \E node \in EmittedNodes :
         /\ node.id = estimate.id
         /\ node.kind \in NodeKinds(op.relType)

(***************************************************************************)
(* C15: after toVeloxPlan, for every scan, filter, project, join,          *)
(* aggregation, order by and repartition of the lowered plan the Cost of   *)
(* the RelationOp is recorded under the id of the plan node emitted for    *)
(* it.                                                                     *)
(***************************************************************************)
C15_CostRecordedPerNode ==
  Emitted =>
    \A op \in RelationOpsOf(GatheredInput) :
      NodeKinds(op.relType) # {} => HasEstimate(op)

(***************************************************************************)
(* Logical plan nodes: the output type a node constructor computes, with   *)
(* the user error it raises instead ("" when it raises none).              *)
(***************************************************************************)
MaxNames == 2
MaxNodes == 2

ColumnNames == {"", "a", "b"}

NameLists == UNION { [1..n -> ColumnNames] : n \in 0..MaxNames }

UniqueNameChecker == [names |-> {}, error |-> ""]

\* UniqueNameChecker::add without the check of names_.insert(name).second.
add_AnyName(checker, name) ==
  IF checker.error # "" THEN checker
  ELSE IF name = "" THEN [checker EXCEPT !.error = "Name must not be empty"]
  ELSE [checker EXCEPT !.names = @ \cup {name}]

\* UniqueNameChecker::add; a checker that raised stays as it was.
add(checker, name) ==
  IF checker.error # "" THEN checker
  ELSE IF name = "" THEN [checker EXCEPT !.error = "Name must not be empty"]
  ELSE IF name \in checker.names THEN [checker EXCEPT !.error = "Duplicate name"]
  ELSE [checker EXCEPT !.names = @ \cup {name}]

\* UniqueNameChecker::addAll
RECURSIVE addAll(_, _)
addAll(checker, names) ==
  IF names = <<>> THEN checker
  ELSE addAll(add(checker, Head(names)), Tail(names))

\* UniqueNameChecker::check: the error raised, "" if none.
check(names) == addAll(UniqueNameChecker, names).error

LogicalNode(kind, outputNames, error) ==
  [kind |-> kind, outputNames |-> outputNames, error |-> error]

\* ValuesNode::ValuesNode
ValuesNode(names, numRows, rowsMatch) ==
  LogicalNode("kValues", names,
    IF numRows = 0 /\ Len(names) # 0 THEN "Check failed: 0 == rowType->size()"
    ELSE IF check(names) # "" THEN check(names)
    ELSE IF numRows > 0 /\ ~rowsMatch THEN "Incompatible types"
    ELSE "")

\* ProjectNode::makeOutputType
ProjectNode_makeOutputType(names, numExpressions) ==
  LogicalNode("kProject", names,
    IF Len(names) # numExpressions THEN "Check failed: names.size() == expressions.size()"
    ELSE check(names))

\* AggregateNode::makeOutputType
AggregateNode_makeOutputType(numKeys, numSets, numAggregates, outputNames) ==
  LET size == numKeys + numAggregates + (IF numSets = 0 THEN 0 ELSE 1)
  IN LogicalNode("kAggregate", outputNames,
       IF Len(outputNames) # size THEN "Check failed: outputNames.size() == size"
       ELSE check(outputNames))

\* JoinNode::makeOutputType: the names of the left input followed by those of
\* the right input.
JoinNode_makeOutputType(left, right) ==
  LogicalNode("kJoin", left \o right, check(left \o right))

\* The types an unnest expression can have: the number of columns it unnests
\* to, and for an array of rows the number of fields of the row.
UnnestTypes ==
  { [isArray |-> TRUE, isMap |-> FALSE, size |-> 1, rowSize |-> 0],
    [isArray |-> FALSE, isMap |-> TRUE, size |-> 2, rowSize |-> 0],
    [isArray |-> TRUE, isMap |-> FALSE, size |-> 1, rowSize |-> 2],
    [isArray |-> FALSE, isMap |-> FALSE, size |-> 0, rowSize |-> 0] }

\* The loop of UnnestNode::makeOutputType over the unnest expressions.
RECURSIVE unnestColumns(_, _, _)
unnestColumns(types, unnestedNames, flattenArrayOfRows) ==
  IF types = <<>> THEN [names |-> <<>>, error |-> ""]
  ELSE
    LET type == Head(types)
        outputNames == Head(unnestedNames)
        expected == IF flattenArrayOfRows /\ type.isArray /\ type.rowSize > 0
                      THEN type.rowSize ELSE type.size
        rest == unnestColumns(Tail(types), Tail(unnestedNames), flattenArrayOfRows)
    IN IF ~(type.isArray \/ type.isMap)
         THEN [names |-> <<>>, error |-> "A column to unnest must be an ARRAY or a MAP"]
       ELSE IF Len(outputNames) # expected
         THEN [names |-> <<>>, error |-> "Check failed: numOutput"]
       ELSE IF rest.error # "" THEN rest
       ELSE [names |-> outputNames \o rest.names, error |-> ""]

\* UnnestNode::makeOutputType; 'ordinalityName' is empty or holds the name.
UnnestNode_makeOutputType(input, types, unnestedNames, ordinalityName, flattenArrayOfRows) ==
  IF Len(unnestedNames) # Len(types)
    THEN LogicalNode("kUnnest", input,
                     "Check failed: unnestedNames.size() == unnestExpressions.size()")
  ELSE IF Len(unnestedNames) = 0
    THEN LogicalNode("kUnnest", input,
                     "Unnest requires at least one ARRAY or MAP to expand")
  ELSE
    LET unnested == unnestColumns(types, unnestedNames, flattenArrayOfRows)
        names == input \o unnested.names \o ordinalityName
    IN IF unnested.error # "" THEN LogicalNode("kUnnest", input, unnested.error)
       ELSE LogicalNode("kUnnest", names, check(names))

(***************************************************************************)
(* The construction of logical plan nodes as a state machine: a node that  *)
(* was constructed without error can be the input of later nodes.          *)
(***************************************************************************)
MaxColumns == 4

InitLogical ==
  /\ EmitIdle
  /\ SearchIdle
  /\ HistoryIdle
  /\ CostIdle
  /\ SubfieldsIdle
  /\ PushdownIdle
  /\ SaverIdle
  /\ StatsIdle
  /\ FiltersIdle
  /\ planNodes = {}
  /\ constructed = NotConstructed

\* The nodes kept stay within the bounds of the model.
CanKeep(node) ==
  /\ Len(node.outputNames) <= MaxColumns
  /\ node.error = "" =>
       (node.outputNames \in planNodes \/ Cardinality(planNodes) < MaxNodes)

\* The nodes there are after a constructor returned 'node' or raised.
Kept(node) ==
  IF node.error = "" THEN planNodes \cup {node.outputNames} ELSE planNodes

NewValues(names, numRows, rowsMatch) ==
  LET node == ValuesNode(names, numRows, rowsMatch)
  IN /\ CanKeep(node)
     /\ constructed' = node
     /\ planNodes' = Kept(node)
     /\ UNCHANGED <<emitVars, searchVars, othersThanLogical>>

NewProject(input, names, numExpressions) ==
  LET node == ProjectNode_makeOutputType(names, numExpressions)
  IN /\ input \in planNodes
     /\ CanKeep(node)
     /\ constructed' = node
     /\ planNodes' = Kept(node)
     /\ UNCHANGED <<emitVars, searchVars, othersThanLogical>>

NewAggregate(input, numKeys, numSets, numAggregates, outputNames) ==
  LET node == AggregateNode_makeOutputType(numKeys, numSets, numAggregates,
                                           outputNames)
  IN /\ input \in planNodes
     /\ CanKeep(node)
     /\ constructed' = node
     /\ planNodes' = Kept(node)
     /\ UNCHANGED <<emitVars, searchVars, othersThanLogical>>

NewJoin(left, right) ==
  LET node == JoinNode_makeOutputType(left, right)
  IN /\ left \in planNodes
     /\ right \in planNodes
     /\ CanKeep(node)
     /\ constructed' = node
     /\ planNodes' = Kept(node)
     /\ UNCHANGED <<emitVars, searchVars, othersThanLogical>>

NewUnnest(input, types, unnestedNames, ordinalityName, flattenArrayOfRows) ==
  LET node == UnnestNode_makeOutputType(input, types, unnestedNames,
                                        ordinalityName, flattenArrayOfRows)
  IN /\ input \in planNodes
     /\ CanKeep(node)
     /\ constructed' = node
     /\ planNodes' = Kept(node)
     /\ UNCHANGED <<emitVars, searchVars, othersThanLogical>>

NextLogical ==
  \/ \E names \in NameLists, numRows \in 0..1, rowsMatch \in BOOLEAN :
       NewValues(names, numRows, rowsMatch)
  \/ \E input \in planNodes, names \in NameLists, numExpressions \in 1..MaxNames :
       NewProject(input, names, numExpressions)
  \/ \E input \in planNodes, numKeys \in 0..1, numSets \in 0..1,
        numAggregates \in 0..1, outputNames \in NameLists :
       NewAggregate(input, numKeys, numSets, numAggregates, outputNames)
  \/ \E left \in planNodes, right \in planNodes : NewJoin(left, right)
  \/ \E input \in planNodes, types \in UNION { [1..n -> UnnestTypes] : n \in 0..1 },
        unnestedNames \in UNION { [1..n -> NameLists] : n \in 0..1 },
        ordinalityName \in UNION { [1..n -> ColumnNames] : n \in 0..1 },
        flattenArrayOfRows \in BOOLEAN :
       NewUnnest(input, types, unnestedNames, ordinalityName, flattenArrayOfRows)

SpecLogical == InitLogical /\ [][NextLogical]_vars

(***************************************************************************)
(* C16: the output names of a logical plan node are non-empty and pairwise *)
(* distinct: constructing a Values, Project, Aggregate, Join or Unnest     *)
(* node whose output names contain an empty name or a name twice (for a    *)
(* Join, also once on the left and once on the right) raises a user error. *)
(***************************************************************************)
UniqueNames(names) ==
  /\ \A i \in DOMAIN names : names[i] # ""
  /\ \A i, j \in DOMAIN names : names[i] = names[j] => i = j

C16_OutputNamesUnique ==
  /\ \A names \in planNodes : UniqueNames(names)
  /\ constructed.kind \in {"kValues", "kProject", "kAggregate", "kJoin", "kUnnest"} =>
       (~UniqueNames(constructed.outputNames) => constructed.error # "")

C16_Witness ==
  /\ constructed.kind = "kJoin"
  /\ constructed.error = "Duplicate name"
  /\ \E left \in planNodes, right \in planNodes :
       /\ constructed.outputNames = left \o right
       /\ UniqueNames(left) /\ UniqueNames(right)
       /\ Range(left) \cap Range(right) # {}

(***************************************************************************)
(* The History store saved to and loaded from a file                       *)
(* (axiom/optimizer/Cost.cpp, History::saveToFile and updateFromFile).     *)
(* An entry maps the fingerprint of an operator to its measured            *)
(* cardinality and bytes.  The cardinality is a float: it is held in units *)
(* of 1 / CardinalityDen, and the JSON text holds it as a decimal number.  *)
(***************************************************************************)
CardinalityDen == 4
Fingerprints == {"scan t", "scan t join u"}
Measurements ==
  { [cardinality |-> 5, bytes |-> 16],     \* 1.25 rows, 16 bytes
    [cardinality |-> 40, bytes |-> 0] }    \* 10 rows, 0 bytes

\* All the orders in which the elements of a set can be iterated.
Orders(set) ==
  { order \in [1..Cardinality(set) -> set] :
      \A i, j \in 1..Cardinality(set) : i # j => order[i] # order[j] }

\* record_execution: persists fingerprint -> cardinality and memory.
recordExecution(entries, fingerprint, measurement) ==
  [f \in DOMAIN entries \cup {fingerprint} |->
     IF f = fingerprint THEN measurement ELSE entries[f]]

\* History::serialize: one record per entry, in the order 'order' in which
\* the map of the entries is iterated.
serialize(entries, order) ==
  [i \in 1..Len(order) |->
     [fingerprint |-> order[i],
      cardinality |-> entries[order[i]].cardinality,
      bytes |-> entries[order[i]].bytes]]

\* The decimal text of a number of 'den'-ths: its integer part and the
\* hundredths after the point.
toDecimal(value, den) ==
  [integer |-> value \div den, hundredths |-> ((value % den) * 100) \div den]

\* The number of 'den'-ths a decimal text reads as.
fromDecimal(text, den) ==
  text.integer * den + (text.hundredths * den) \div 100

\* folly::toPrettyJson of a serialized History: the text of every record.
toPrettyJson(json) ==
  [i \in 1..Len(json) |->
     [fingerprint |-> json[i].fingerprint,
      cardinality |-> toDecimal(json[i].cardinality, CardinalityDen),
      bytes |-> toDecimal(json[i].bytes, 1)]]

\* The dynamic that one JSON document of the file parses to.
parseJson(text) ==
  [i \in 1..Len(text) |->
     [fingerprint |-> text[i].fingerprint,
      cardinality |-> fromDecimal(text[i].cardinality, CardinalityDen),
      bytes |-> fromDecimal(text[i].bytes, 1)]]

\* readConcatenatedDynamicsFromFile: one dynamic per document of the file.
readConcatenatedDynamicsFromFile(documents) ==
  [i \in 1..Len(documents) |-> parseJson(documents[i])]

\* History::update keeping the first record only.
update_FirstRecord(entries, json) ==
  IF json = <<>> THEN entries
  ELSE recordExecution(entries, json[1].fingerprint,
                       [cardinality |-> json[1].cardinality, bytes |-> json[1].bytes])

\* History::update: every record of the dynamic becomes an entry.
RECURSIVE update(_, _)
update(entries, json) ==
  IF json = <<>> THEN entries
  ELSE update(recordExecution(entries, json[1].fingerprint,
                              [cardinality |-> json[1].cardinality, bytes |-> json[1].bytes]),
              Tail(json))

\* History::saveToFile: the file opened for writing holds the one document.
saveToFile(entries, order) == <<toPrettyJson(serialize(entries, order))>>

\* The loop of History::updateFromFile over the dynamics read.
RECURSIVE updateAll(_, _)
updateAll(entries, dynamics) ==
  IF dynamics = <<>> THEN entries
  ELSE updateAll(update(entries, Head(dynamics)), Tail(dynamics))

\* History::updateFromFile.
updateFromFile(entries, documents) ==
  updateAll(entries, readConcatenatedDynamicsFromFile(documents))

InitHistory ==
  /\ EmitIdle
  /\ SearchIdle
  /\ LogicalIdle
  /\ CostIdle
  /\ HistoryIdle
  /\ SubfieldsIdle
  /\ PushdownIdle
  /\ SaverIdle
  /\ StatsIdle
  /\ FiltersIdle

RecordExecution(fingerprint, measurement) ==
  /\ history' = recordExecution(history, fingerprint, measurement)
  /\ UNCHANGED <<file, saved, loaded>>
  /\ UNCHANGED <<emitVars, searchVars, othersThanHistory>>

SaveToFile(order) ==
  /\ file' = saveToFile(history, order)
  /\ saved' = history
  /\ UNCHANGED <<history, loaded>>
  /\ UNCHANGED <<emitVars, searchVars, othersThanHistory>>

\* updateFromFile on a History that is empty ('fresh') or that was loaded
\* into before.
UpdateFromFile(fresh) ==
  /\ file # <<>>
  /\ fresh \/ loaded.made
  /\ LET before == IF fresh THEN EmptyHistory ELSE loaded.entries
     IN loaded' = [made |-> TRUE,
                   wasEmpty |-> before = EmptyHistory,
                   entries |-> updateFromFile(before, file),
                   source |-> saved]
  /\ UNCHANGED <<history, file, saved>>
  /\ UNCHANGED <<emitVars, searchVars, othersThanHistory>>

NextHistory ==
  \/ \E fingerprint \in Fingerprints, measurement \in Measurements :
       RecordExecution(fingerprint, measurement)
  \/ \E order \in Orders(DOMAIN history) : SaveToFile(order)
  \/ \E fresh \in BOOLEAN : UpdateFromFile(fresh)

SpecHistory == InitHistory /\ [][NextHistory]_vars

NegInf == [kind |-> "-inf"]
IsNumber(x) == x.kind = "num"

fmul(a, b) ==
  IF a = NaN \/ b = NaN THEN NaN
  ELSE IF a = Inf \/ b = Inf THEN (IF a = Zero \/ b = Zero THEN NaN ELSE Inf)
  ELSE Num(a.num * b.num, a.den * b.den)

fdiv(a, b) ==
  IF a = NaN \/ b = NaN THEN NaN
  ELSE IF b = Zero THEN (IF a = Zero THEN NaN ELSE Inf)
  ELSE IF a = Inf THEN (IF b = Inf THEN NaN ELSE Inf)
  ELSE IF b = Inf THEN Zero
  ELSE Num(a.num * b.den, a.den * b.num)

fadd(a, b) ==
  IF a = NaN \/ b = NaN THEN NaN
  ELSE IF a = Inf \/ b = Inf THEN Inf
  ELSE Num(a.num * b.den + b.num * a.den, a.den * b.den)

fsub(a, b) ==
  IF a = NaN \/ b = NaN THEN NaN
  ELSE IF a = Inf THEN (IF b = Inf THEN NaN ELSE Inf)
  ELSE IF b = Inf THEN NegInf
  ELSE Num(a.num * b.den - b.num * a.den, a.den * b.den)

\* a < b; a comparison with NaN is false.
fless(a, b) ==
  IF a = NaN \/ b = NaN \/ a = Inf THEN FALSE
  ELSE IF b = Inf THEN TRUE
  ELSE a.num * b.den < b.num * a.den

RECURSIVE IntPow(_, _)
IntPow(x, n) == IF n = 0 THEN 1 ELSE x * IntPow(x, n - 1)

\* The powers this model computes: those whose value is a fraction.
Computable(base, exponent) ==
  IF ~IsNumber(base) \/ ~IsNumber(exponent) THEN TRUE
  ELSE IF base = Zero \/ base = One THEN TRUE
  ELSE exponent.den = 1

\* pow(base, exponent) of the C library for base >= 0 and exponent >= 0.
pow(base, exponent) ==
  IF exponent = Zero \/ base = One THEN One
  ELSE IF base = NaN \/ exponent = NaN THEN NaN
  ELSE IF exponent = Inf
    THEN (IF fless(base, One) THEN Zero ELSE Inf)
  ELSE IF base = Inf THEN Inf
  ELSE IF base = Zero THEN Zero
  ELSE Num(IntPow(base.num, exponent.num), IntPow(base.den, exponent.num))

kSmallHashCost == 10
kLargeHashCost == 40

\* Costs::hashProbeCost
hashProbeCost(cardinality) ==
  IF fless(cardinality, Num(10000, 1)) THEN kArrayProbeCost
  ELSE IF fless(cardinality, Num(500000, 1)) THEN kSmallHashCost
  ELSE kLargeHashCost

\* RelationOp::setCost
RelationOp_setCost(cost_, input) ==
  [cost_ EXCEPT !.inputCardinality = input.fanout]

\* updateLeafCost for columns of at most 8 bytes each.
updateLeafCost(cardinality, numColumns, cost) ==
  LET rowCost == Num(numColumns * kColumnRowCost, 1)
  IN [cost EXCEPT !.fanout = cardinality,
                  !.unitCost = fadd(cost.unitCost, fmul(cardinality, rowCost))]

\* TableScan::setCost of a scan without lookup keys.
TableScan_setCost(cost_, input, indexCardinality, filterSelectivity, numColumns) ==
  updateLeafCost(fmul(indexCardinality, filterSelectivity), numColumns,
                 RelationOp_setCost(cost_, input))

\* Filter::setCost
Filter_setCost(cost_, numExprs) ==
  [cost_ EXCEPT !.unitCost = Num(kMinimumFilterCost * numExprs, 1),
                !.fanout = pow(Num(8, 10), Num(numExprs, 1))]

\* The product of the cardinalities of the grouping keys.
RECURSIVE groupingCardinality(_)
groupingCardinality(grouping) ==
  IF grouping = <<>> THEN One
  ELSE fmul(Num(Head(grouping), 1), groupingCardinality(Tail(grouping)))

\* byteSize of 'numColumns' columns of 8 bytes each.
byteSize(numColumns) == Num(8 * numColumns, 1)

\* Aggregation::setCost; 'grouping' holds the cardinality of every key.
Aggregation_setCost(cost_, input, grouping, numAggregates) ==
  LET base == RelationOp_setCost(cost_, input)
      cardinality == groupingCardinality(grouping)
      nOut == fsub(cardinality,
                   fmul(cardinality,
                        pow(fsub(One, fdiv(One, cardinality)), base.inputCardinality)))
      rowBytes == fadd(byteSize(Len(grouping)), byteSize(numAggregates))
  IN [base EXCEPT !.fanout = fdiv(nOut, base.inputCardinality),
                  !.unitCost = Num(Len(grouping) * hashProbeCost(nOut), 1),
                  !.totalBytes = fmul(nOut, rowBytes)]

\* Values::setCost
Values_setCost(cost_, input, cardinality, numColumns) ==
  updateLeafCost(cardinality, numColumns, RelationOp_setCost(cost_, input))

byteShuffleCost == 12
kHashColumnCost == Num(1, 2)
kHashExtractColumnCost == Num(1, 2)

\* Repartition::setCost
Repartition_setCost(cost_, input, numColumns) ==
  LET base == RelationOp_setCost(cost_, input)
      size == byteSize(numColumns)
  IN [base EXCEPT !.unitCost = size,
                  !.transferBytes =
                     fmul(base.inputCardinality, fmul(size, Num(byteShuffleCost, 1)))]

\* HashBuild::setCost
HashBuild_setCost(cost_, input, numKeys, numColumns) ==
  LET base == RelationOp_setCost(cost_, input)
  IN [base EXCEPT
        !.unitCost =
           fadd(fadd(fmul(Num(numKeys, 1), kHashColumnCost),
                     Num(hashProbeCost(base.inputCardinality), 1)),
                fmul(fmul(Num(numColumns, 1), kHashExtractColumnCost), Num(2, 1))),
        !.totalBytes = fmul(base.inputCardinality, byteSize(numColumns))]

\* Join::setCost; 'right' is the cost of the HashBuild, 'numColumns' the
\* number of columns of its input.
Join_setCost(cost_, input, right, numColumns, numKeys) ==
  LET base == RelationOp_setCost(cost_, input)
      buildSize == right.inputCardinality
      rowCost == fmul(Num(numColumns, 1), kHashExtractColumnCost)
  IN [base EXCEPT
        !.unitCost = fadd(fadd(Num(hashProbeCost(buildSize), 1),
                               fmul(base.fanout, rowCost)),
                          fmul(Num(numKeys, 1), kHashColumnCost))]

\* The loop of UnionAll::setCost over the costs of the inputs.
RECURSIVE addInputCardinalities(_, _)
addInputCardinalities(inputCardinality, inputs) ==
  IF inputs = <<>> THEN inputCardinality
  ELSE addInputCardinalities(
         fadd(inputCardinality, fmul(Head(inputs).inputCardinality, Head(inputs).fanout)),
         Tail(inputs))

\* UnionAll::setCost
UnionAll_setCost(cost_, inputs) ==
  [cost_ EXCEPT !.inputCardinality = addInputCardinalities(cost_.inputCardinality, inputs)]

\* Limit::setCost
Limit_setCost(cost_, input, limit) ==
  [cost_ EXCEPT !.unitCost = Num(1, 100),
                !.fanout = IF ~fless(Num(limit, 1), input.inputCardinality)
                                /\ input.inputCardinality # NaN
                             THEN One
                           ELSE fdiv(Num(limit, 1), input.inputCardinality)]

\* setCost of the RelationOp 'op', whose cost_ is op.cost, for the PlanState
\* cost 'input'.
setCost(op, input) ==
  CASE op.relType = "kTableScan" ->
         TableScan_setCost(op.cost, input, op.indexCardinality,
                           op.filterSelectivity, op.numColumns)
    [] op.relType = "kValues" ->
         Values_setCost(op.cost, input, op.cardinality, op.numColumns)
    [] op.relType = "kUnionAll" -> UnionAll_setCost(op.cost, op.inputs)
    [] op.relType = "kFilter" -> Filter_setCost(op.cost, op.numExprs)
    [] op.relType = "kAggregation" ->
         Aggregation_setCost(op.cost, input, op.grouping, op.numAggregates)
    [] op.relType = "kRepartition" -> Repartition_setCost(op.cost, input, op.numColumns)
    [] op.relType = "kHashBuild" ->
         HashBuild_setCost(op.cost, input, op.numKeys, op.numColumns)
    [] op.relType = "kJoin" ->
         Join_setCost(op.cost, input, op.right, op.numColumns, op.numKeys)
    [] op.relType = "kLimit" -> Limit_setCost(op.cost, input, op.limit)

\* PlanState::addCost: the unit cost of the op counts once per row that
\* reaches it, and the fanouts multiply.
placeCost(cost, added) ==
  [cost EXCEPT !.unitCost = fadd(cost.unitCost, fmul(cost.fanout, added.unitCost)),
               !.fanout = fmul(cost.fanout, added.fanout)]

MaxPlaced == 3
MaxKeys == 2
MaxLimit == 2
IndexCardinalities == {Zero, Num(2, 1), Num(3, 1)}
FilterSelectivities == {One, Num(1, 2)}
KeyCardinalities == {1, 2}
Groupings == UNION { [1..n -> KeyCardinalities] : n \in 0..MaxKeys }

\* The RelationOps costed: a leaf, then operators on top of it.
LeafOps ==
  { [relType |-> "kTableScan", indexCardinality |-> indexCardinality,
     filterSelectivity |-> filterSelectivity, numColumns |-> numColumns] :
      indexCardinality \in IndexCardinalities,
      filterSelectivity \in FilterSelectivities, numColumns \in 1..2 }
  \cup { [relType |-> "kValues", cardinality |-> Num(cardinality, 1), numColumns |-> 1] :
           cardinality \in 0..2 }

\* The costed inputs of a UnionAll: scans and a filter above a scan.
UnionInputs ==
  LET scan(cardinality) ==
        TableScan_setCost(NoCost, NoCost, Num(cardinality, 1), One, 1)
      filtered == [Filter_setCost(NoCost, 1) EXCEPT !.inputCardinality = Num(2, 1)]
  IN {scan(0), scan(2), scan(3), filtered}

UnionOps ==
  { [relType |-> "kUnionAll", inputs |-> <<left, right>>] :
      left \in UnionInputs, right \in UnionInputs }

UpperOps ==
  { [relType |-> "kFilter", numExprs |-> numExprs] : numExprs \in 1..2 }
  \cup { [relType |-> "kAggregation", grouping |-> grouping, numAggregates |-> 1] :
           grouping \in Groupings }
  \cup { [relType |-> "kRepartition", numColumns |-> 2],
         [relType |-> "kHashBuild", numKeys |-> 1, numColumns |-> 2] }
  \cup { [relType |-> "kLimit", limit |-> limit] : limit \in 1..MaxLimit }

\* A join with the HashBuild of a build side of 'buildSize' rows; the fanout
\* of the join is set when the Join is made.
JoinOp(buildSize, fanout) ==
  [relType |-> "kJoin",
   right |-> HashBuild_setCost(NoCost, [NoCost EXCEPT !.fanout = buildSize], 1, 2),
   numColumns |-> 2, numKeys |-> 1, fanout |-> fanout]

\* 'op' made with the cost_ 'cost_', costed for the PlanState cost 'input'.
Costed(op, cost_, input) ==
  LET cost == setCost([relType |-> op.relType, cost |-> cost_] @@ op, input)
  IN [cost |-> cost, first |-> cost, input |-> input, calls |-> 1] @@ op

\* The power of Aggregation::setCost is one this model computes.
CanCost(op, input) ==
  op.relType = "kAggregation" =>
    Computable(fsub(One, fdiv(One, groupingCardinality(op.grouping))), input.fanout)

InitCost ==
  /\ EmitIdle
  /\ SearchIdle
  /\ LogicalIdle
  /\ HistoryIdle
  /\ CostIdle
  /\ SubfieldsIdle
  /\ PushdownIdle
  /\ SaverIdle
  /\ StatsIdle
  /\ FiltersIdle

NotCalledAgain == \A i \in 1..Len(placed) : placed[i].calls = 1

\* A scan, a Values or a UnionAll is the leaf of the plan.
PlaceLeaf(op) ==
  /\ placed = <<>>
  /\ LET costed == Costed(op, NoCost, planCost)
     IN /\ placed' = <<costed>>
        /\ planCost' = placeCost(planCost, costed.cost)
  /\ UNCHANGED <<emitVars, searchVars, othersThanCost>>

\* A filter, aggregation, repartition, hash build or limit on top of the plan.
PlaceOp(op) ==
  /\ placed # <<>>
  /\ Len(placed) < MaxPlaced
  /\ NotCalledAgain
  /\ placed[Len(placed)].relType # "kHashBuild"
  /\ CanCost(op, planCost)
  /\ LET costed == Costed(op, NoCost, planCost)
     IN /\ placed' = Append(placed, costed)
        /\ planCost' = placeCost(planCost, costed.cost)
  /\ UNCHANGED <<emitVars, searchVars, othersThanCost>>

PlaceJoin(buildSize, fanout) ==
  /\ placed # <<>>
  /\ Len(placed) < MaxPlaced
  /\ NotCalledAgain
  /\ placed[Len(placed)].relType # "kHashBuild"
  /\ LET costed == Costed(JoinOp(buildSize, fanout),
                          [NoCost EXCEPT !.fanout = fanout], planCost)
     IN /\ placed' = Append(placed, costed)
        /\ planCost' = placeCost(planCost, costed.cost)
  /\ UNCHANGED <<emitVars, searchVars, othersThanCost>>

\* setCost called once more on the op placed last, with the same PlanState.
SetCostAgain ==
  /\ placed # <<>>
  /\ NotCalledAgain
  /\ LET i == Len(placed)
         op == placed[i]
     IN placed' = [placed EXCEPT ![i] =
                     [op EXCEPT !.cost = setCost(op, op.input), !.calls = 2]]
  /\ UNCHANGED planCost
  /\ UNCHANGED <<emitVars, searchVars, othersThanCost>>

NextCost ==
  \/ \E op \in LeafOps \cup UnionOps : PlaceLeaf(op)
  \/ \E op \in UpperOps : PlaceOp(op)
  \/ \E buildSize \in {Num(2, 1), Num(20000, 1)}, fanout \in {One, Num(1, 2)} :
       PlaceJoin(buildSize, fanout)
  \/ SetCostAgain

SpecCost == InitCost /\ [][NextCost]_vars

\* The aggregations without grouping keys among the placed ops.
GlobalAggregations ==
  { i \in 1..Len(placed) :
      placed[i].relType = "kAggregation" /\ placed[i].grouping = <<>> }

\* C18: an Aggregation without grouping keys over an input of cardinality N
\* has fanout 1 / N and output cardinality 1, both defined numbers, for every
\* N including 0.
C18_GlobalAggregationFanout ==
  \A i \in GlobalAggregations :
    LET cost == placed[i].cost
    IN /\ IsNumber(cost.fanout)
       /\ cost.fanout = fdiv(One, cost.inputCardinality)
       /\ fmul(cost.inputCardinality, cost.fanout) = One

\* C21: calling setCost a second time with the same PlanState leaves the
\* Cost of the operator, of every kind, exactly as after the first call.
C21_SetCostIdempotent ==
  \A i \in 1..Len(placed) : placed[i].cost = placed[i].first

\* The Limits among the placed ops.
Limits == { i \in 1..Len(placed) : placed[i].relType = "kLimit" }

\* C22: a Limit on an input of cardinality N, the fanout of the plan below
\* it, has fanout 1 when N <= limit and limit / N otherwise, so that N times
\* the fanout never exceeds the limit.
C22_LimitFanout ==
  \A i \in Limits :
    LET N == placed[i].input.fanout
        limit == Num(placed[i].limit, 1)
        fanout == placed[i].first.fanout
    IN IsNumber(N) =>
         /\ fanout = (IF fless(limit, N) THEN fdiv(limit, N) ELSE One)
         /\ ~fless(limit, fmul(N, fanout))

\* The sum of the output cardinalities of the costed inputs of a UnionAll.
RECURSIVE outputCardinalities(_)
outputCardinalities(inputs) ==
  IF inputs = <<>> THEN Zero
  ELSE fadd(fmul(Head(inputs).inputCardinality, Head(inputs).fanout),
            outputCardinalities(Tail(inputs)))

\* C23: the cardinality of a UnionAll is the sum of the output cardinalities
\* of its inputs, in whichever order they come.
C23_UnionAllCardinality ==
  \A i \in 1..Len(placed) :
    placed[i].relType = "kUnionAll" =>
      /\ placed[i].cost.inputCardinality = outputCardinalities(placed[i].inputs)
      /\ placed[i].cost.inputCardinality =
           outputCardinalities(<<placed[i].inputs[2], placed[i].inputs[1]>>)

(***************************************************************************)
(* Marking the accessed subfields of a logical plan                        *)
(* (axiom/optimizer/Subfields.cpp).  A node of the plan is identified by   *)
(* its position: the sequence of input numbers that leads to it from the   *)
(* root.  Ordinals count from 1.                                           *)
(***************************************************************************)
InputReference(name) == [expr |-> "kInputReference", name |-> name, inputs |-> <<>>]
ConstantExpr(value) == [expr |-> "kConstant", name |-> value, inputs |-> <<>>]
CallExpr(name, inputs) == [expr |-> "kCall", name |-> name, inputs |-> inputs]
Dereference(input, field) == [expr |-> "kDereference", name |-> field, inputs |-> <<input>>]

\* An aggregate function call of an AggregateNode; 'filter' is empty or holds
\* the one filter expression.
AggregateCall(inputs, filter, ordering) ==
  [inputs |-> inputs, filter |-> filter, ordering |-> ordering]

LpNode(kind, outputNames, inputs, expressions, aggregates, operation) ==
  [kind |-> kind, outputNames |-> outputNames, inputs |-> inputs,
   expressions |-> expressions, aggregates |-> aggregates, operation |-> operation]

LpValues(names) == LpNode("kValues", names, <<>>, <<>>, <<>>, "")
LpProject(input, expressions) ==
  LpNode("kProject", SubSeq(input.outputNames, 1, Len(expressions)), <<input>>,
         expressions, <<>>, "")
LpFilter(input, predicate) ==
  LpNode("kFilter", input.outputNames, <<input>>, <<predicate>>, <<>>, "")
LpAggregate(input, groupingKeys, aggregates) ==
  LpNode("kAggregate",
         SubSeq(input.outputNames, 1, Len(groupingKeys) + Len(aggregates)),
         <<input>>, groupingKeys, aggregates, "")
LpJoin(left, right, condition) ==
  LpNode("kJoin", left.outputNames \o right.outputNames, <<left, right>>,
         condition, <<>>, "")
LpSort(input, ordering) ==
  LpNode("kSort", input.outputNames, <<input>>, ordering, <<>>, "")
LpSet(operation, left, right) ==
  LpNode("kSet", left.outputNames, <<left, right>>, <<>>, <<>>, operation)

RECURSIVE NodeAt(_, _)
NodeAt(plan, position) ==
  IF position = <<>> THEN plan
  ELSE NodeAt(plan.inputs[Head(position)], Tail(position))

\* RowType::getChildIdxIfExists: the ordinal of 'name', 0 if there is none.
getChildIdx(names, name) ==
  IF \E i \in 1..Len(names) : names[i] = name
    THEN CHOOSE i \in 1..Len(names) :
           names[i] = name /\ \A j \in 1..(i - 1) : names[j] # name
  ELSE 0

Step(kind, field, allFields) == [kind |-> kind, field |-> field, allFields |-> allFields]

\* stepsToPath: the steps are collected from the outermost getter inwards,
\* the path lists them from the column outwards.
stepsToPath(steps) == [i \in 1..Len(steps) |-> steps[Len(steps) + 1 - i]]

\* What a failed check leaves in place of a mark.
VeloxFail(message) == <<<<0>>, 0, <<Step(message, "", FALSE)>>>>

\* tryFoldConstant of the exprs of this model: a constant is one already.
tryFoldConstant(expr) == IF expr.expr = "kConstant" THEN <<expr>> ELSE <<>>

\* The exprs of the output column 'ordinal' of an AggregateNode that
\* markFieldAccessed marks.
aggregateExprs(node, ordinal) ==
  IF ordinal <= Len(node.expressions) THEN <<node.expressions[ordinal]>>
  ELSE LET aggregate == node.aggregates[ordinal - Len(node.expressions)]
       IN aggregate.inputs \o aggregate.filter \o aggregate.ordering

\* The FunctionMetadata of the functions of this model: make_row builds a
\* row of the fields x and y from its two arguments and has a
\* valuePathToArgPath; no other function has metadata.
RowFields == <<"x", "y">>
functionMetadata(name) ==
  IF name = "make_row"
    THEN <<[processSubfields |-> TRUE, valuePathToArgPath |-> TRUE, subfieldArg |-> 0]>>
  ELSE <<>>

\* valuePathToArgPath of make_row: the getter applied to the row selects the
\* argument, the steps before it are the path into that argument.
valuePathToArgPath(steps, call) ==
  <<SubSeq(steps, 1, Len(steps) - 1), getChildIdx(RowFields, steps[Len(steps)].field)>>

\* steps.push_back and steps.pop_back on the vector of the marking state.
push_back(m, step) == [m EXCEPT !.steps = Append(@, step)]
pop_back_Kept(m) == m
pop_back(m) == [m EXCEPT !.steps = SubSeq(@, 1, Len(@) - 1)]

\* VELOX_CHECK(steps.empty()) after a call that got the vector.
checkEmpty(m) ==
  IF m.steps = <<>> THEN m
  ELSE [m EXCEPT !.fields = @ \cup {VeloxFail("steps.empty()")}]

RECURSIVE markSubfields(_, _, _, _)
RECURSIVE markFieldAccessed(_, _, _, _)
RECURSIVE markEach(_, _, _, _)
RECURSIVE markArguments(_, _, _, _, _, _)
RECURSIVE markCall(_, _, _, _, _)
RECURSIVE markSetInputs(_, _, _, _, _)

\* Marks every expr of 'exprs' with one vector of steps of its own, which
\* starts empty; the steps of the caller are as they were.
markExprs(m, plan, exprs, sources) ==
  [markEach([m EXCEPT !.steps = <<>>], plan, exprs, sources) EXCEPT !.steps = m.steps]

markEach(m, plan, exprs, sources) ==
  IF exprs = <<>> THEN m
  ELSE markEach(markSubfields(m, plan, Head(exprs), sources), plan, Tail(exprs), sources)

\* ToGraph::markSubfields; 'm' holds the nodeFields and argFields marked so
\* far and the steps of the caller, 'sources' are the positions of the nodes
\* of the context.  The result holds the steps as the call leaves them.
markSubfields(m, plan, expr, sources) ==
  LET called == [m EXCEPT !.calls = @ + 1]
  IN
  CASE expr.expr = "kInputReference" ->
         LET found == { i \in 1..Len(sources) :
                          getChildIdx(NodeAt(plan, sources[i]).outputNames, expr.name) # 0 }
         IN IF found = {}
              THEN [called EXCEPT !.fields = @ \cup {VeloxFail("Field not found")}]
            ELSE LET i == CHOOSE i \in found : \A j \in found : i <= j
                 IN markFieldAccessed(called, plan, sources[i],
                      getChildIdx(NodeAt(plan, sources[i]).outputNames, expr.name))
    [] expr.expr = "kDereference" ->
         pop_back(markSubfields(push_back(called, Step("kField", expr.name, FALSE)),
                                plan, expr.inputs[1], sources))
    [] expr.expr = "kCall" /\ expr.name = "cardinality" ->
         pop_back(markSubfields(push_back(called, Step("kCardinality", "", FALSE)),
                                plan, expr.inputs[1], sources))
    [] expr.expr = "kCall" /\ expr.name \in {"subscript", "element_at"} ->
         LET constant == tryFoldConstant(expr.inputs[2])
         IN IF constant = <<>>
              THEN LET subscript == markSubfields([called EXCEPT !.steps = <<>>], plan,
                                                  expr.inputs[2], sources)
                       base == [subscript EXCEPT !.steps = m.steps]
                   IN pop_back(markSubfields(push_back(base, Step("kSubscript", "", TRUE)),
                                             plan, expr.inputs[1], sources))
            ELSE pop_back(
                   markSubfields(push_back(called, Step("kSubscript", constant[1].name, FALSE)),
                                 plan, expr.inputs[1], sources))
    [] expr.expr = "kCall" /\ expr.name \notin {"cardinality", "subscript", "element_at"} ->
         LET metadata == functionMetadata(expr.name)
         IN IF metadata = <<>> \/ ~metadata[1].processSubfields
              THEN markExprs(called, plan, expr.inputs, sources)
            ELSE markCall(called, plan, expr, metadata[1], sources)
    [] expr.expr = "kConstant" -> called

\* A call with metadata that marks all its arguments whatever the path.
markCall_AllArguments(m, plan, expr, metadata, sources) ==
  LET mark == <<expr, stepsToPath(m.steps)>>
  IN IF mark \in m.args THEN m
     ELSE markArguments([m EXCEPT !.args = @ \cup {mark}], plan, expr, metadata, 1, sources)

\* ToGraph::markSubfields for a call with metadata that processes subfields:
\* the path is recorded for the call; a path goes to the one argument that
\* valuePathToArgPath returns.
markCall(m, plan, expr, metadata, sources) ==
  LET mark == <<expr, stepsToPath(m.steps)>>
      added == [m EXCEPT !.args = @ \cup {mark}]
  IN IF mark \in m.args THEN m
     ELSE IF metadata.valuePathToArgPath /\ m.steps # <<>>
       THEN LET pair == valuePathToArgPath(m.steps, expr)
            IN [markSubfields([added EXCEPT !.steps = pair[1]], plan,
                              expr.inputs[pair[2]], sources)
                  EXCEPT !.steps = m.steps]
     ELSE markArguments(added, plan, expr, metadata, 1, sources)

\* The loop of markSubfields over the arguments of a call with metadata,
\* from argument 'i' on: the subfieldArg gets the steps of the call, any
\* other argument a vector of its own.
markArguments(m, plan, expr, metadata, i, sources) ==
  IF i > Len(expr.inputs) THEN m
  ELSE LET marked ==
             IF metadata.subfieldArg = i
               THEN markSubfields(m, plan, expr.inputs[i], sources)
             ELSE [markSubfields([m EXCEPT !.steps = <<>>], plan, expr.inputs[i], sources)
                     EXCEPT !.steps = m.steps]
       IN markArguments(marked, plan, expr, metadata, i + 1, sources)

\* ToGraph::markFieldAccessed(SetNode): the inputs from 'k' on.
markSetInputs(m, plan, source, k, ordinal) ==
  IF k > Len(NodeAt(plan, source).inputs) THEN m
  ELSE markSetInputs(markFieldAccessed(m, plan, Append(source, k), ordinal),
                     plan, source, k + 1, ordinal)

\* Marking without following the column to the nodes it comes from.
markFieldAccessed_NoSources(m, plan, source, ordinal) ==
  [m EXCEPT !.fields = @ \cup {<<source, ordinal, stepsToPath(m.steps)>>}]

\* Marking that does not look for the mark among those made before.
markFieldAccessed_Always(m, plan, source, ordinal) ==
  LET node == NodeAt(plan, source)
      added == [m EXCEPT !.fields = @ \cup {<<source, ordinal, stepsToPath(m.steps)>>},
                         !.calls = @ + 1]
  IN IF node.kind = "kProject"
       THEN markSubfields(added, plan, node.expressions[ordinal], <<Append(source, 1)>>)
     ELSE added

\* ToGraph::markFieldAccessed(LogicalContextSource) for a plan node.
markFieldAccessed(m, plan, source, ordinal) ==
  LET node == NodeAt(plan, source)
      mark == <<source, ordinal, stepsToPath(m.steps)>>
      added == [m EXCEPT !.fields = @ \cup {mark}, !.calls = @ + 1]
  IN IF mark \in m.fields THEN [m EXCEPT !.calls = @ + 1]
     ELSE IF node.kind = "kProject"
       THEN markSubfields(added, plan, node.expressions[ordinal], <<Append(source, 1)>>)
     ELSE IF node.kind = "kAggregate"
       THEN markExprs(added, plan, aggregateExprs(node, ordinal), <<Append(source, 1)>>)
     ELSE IF node.kind = "kSet"
       THEN markSetInputs(added, plan, source, 1, ordinal)
     ELSE IF node.inputs = <<>> THEN added
     ELSE LET fieldName == node.outputNames[ordinal]
              holders == { k \in 1..Len(node.inputs) :
                             getChildIdx(node.inputs[k].outputNames, fieldName) # 0 }
          IN IF holders = {}
               THEN [added EXCEPT !.fields = @ \cup {VeloxFail("Should have found source")}]
             ELSE LET k == CHOOSE k \in holders : \A j \in holders : k <= j
                  IN markFieldAccessed(added, plan, Append(source, k),
                       getChildIdx(node.inputs[k].outputNames, fieldName))

\* The loops of markControl over the columns and the inputs of a SetNode,
\* with the check of the steps after every input.
RECURSIVE markSetColumn(_, _, _, _, _)
markSetColumn(m, plan, source, i, k) ==
  IF k > Len(NodeAt(plan, source).inputs) THEN m
  ELSE markSetColumn(checkEmpty(markFieldAccessed(m, plan, Append(source, k), i)),
                     plan, source, i, k + 1)

RECURSIVE markSetColumns(_, _, _, _)
markSetColumns(m, plan, source, i) ==
  IF i > Len(NodeAt(plan, source).outputNames) THEN m
  ELSE markSetColumns(markSetColumn(m, plan, source, i, 1), plan, source, i + 1)

\* ToGraph::markControl
RECURSIVE markControl(_, _, _)
RECURSIVE markControlInputs(_, _, _, _)
markControl(m, plan, source) ==
  LET node == NodeAt(plan, source)
      inputs == [k \in 1..Len(node.inputs) |-> Append(source, k)]
      own == IF node.kind \in {"kJoin", "kFilter", "kAggregate", "kSort"}
               THEN markExprs(m, plan, node.expressions, inputs)
             ELSE IF node.kind = "kSet" /\ node.operation # "kUnionAll"
               THEN [markSetColumns([m EXCEPT !.steps = <<>>], plan, source, 1)
                       EXCEPT !.steps = m.steps]
             ELSE m
  IN markControlInputs(own, plan, source, 1)

markControlInputs(m, plan, source, k) ==
  IF k > Len(NodeAt(plan, source).inputs) THEN m
  ELSE markControlInputs(markControl(m, plan, Append(source, k)), plan, source, k + 1)

\* The loop of markAllSubfields over the output columns of the root.
RECURSIVE markPayload(_, _, _)
markPayload(m, plan, i) ==
  IF i > Len(plan.outputNames) THEN m
  ELSE markPayload(checkEmpty(markFieldAccessed(m, plan, <<>>, i)), plan, i + 1)

\* The logical plans marked.  Every subplan has the columns k (a number)
\* and s (a struct or a map) of its side, so that the operators nest freely.
LeftNames == <<"k1", "s1">>
RightNames == <<"k2", "s2">>
one == ConstantExpr("1")
Predicates(names) ==
  LET k == InputReference(names[1])
      c == InputReference(names[2])
  IN { CallExpr("gt", <<k, one>>),
       CallExpr("gt", <<Dereference(c, "x"), one>>),
       CallExpr("gt", <<CallExpr("subscript", <<c, ConstantExpr("key")>>), one>>),
       CallExpr("gt", <<CallExpr("subscript", <<c, k>>), one>>),
       CallExpr("gt", <<CallExpr("cardinality", <<c>>), one>>) }

UnaryNodes(input) ==
  LET names == input.outputNames
      k == InputReference(names[1])
      c == InputReference(names[2])
  IN { LpFilter(input, predicate) : predicate \in Predicates(names) }
     \cup { LpProject(input, <<k, c>>),
            LpProject(input, <<CallExpr("plus", <<k, one>>), Dereference(c, "x")>>),
            LpProject(input, <<k, one>>),
            LpAggregate(input, <<k>>, <<AggregateCall(<<c>>, <<>>, <<>>)>>),
            LpAggregate(input, <<>>,
              <<AggregateCall(<<k>>, <<CallExpr("gt", <<Dereference(c, "x"), one>>)>>, <<>>),
                AggregateCall(<<c>>, <<>>, <<k>>)>>),
            LpSort(input, <<k>>),
            LpSort(input, <<Dereference(c, "x")>>) }

LeftPlans == {LpValues(LeftNames)} \cup UnaryNodes(LpValues(LeftNames))
RightPlans ==
  LET values == LpValues(RightNames)
  IN { values,
       LpFilter(values, CallExpr("gt", <<InputReference("k2"), one>>)),
       LpProject(values, <<InputReference("k2"), Dereference(InputReference("s2"), "y")>>) }

JoinConditions ==
  { <<>>,
    <<CallExpr("eq", <<InputReference("k1"), InputReference("k2")>>)>>,
    <<CallExpr("eq", <<Dereference(InputReference("s1"), "x"), InputReference("k2")>>)>> }
SetOperations == {"kUnionAll", "kUnion", "kIntersect", "kExcept"}

BinaryPlans ==
  { LpJoin(left, right, condition) :
      left \in LeftPlans, right \in RightPlans, condition \in JoinConditions }
  \cup { LpSet(operation, left, right) :
           operation \in SetOperations, left \in LeftPlans, right \in RightPlans }

\* The binary nodes that further operators are put on.
InnerBinaryPlans ==
  { plan \in BinaryPlans :
      /\ plan.inputs[1] \in {LpValues(LeftNames), LpSort(LpValues(LeftNames), <<InputReference("k1")>>)}
      /\ plan.inputs[2].kind \in {"kValues", "kProject"}
      /\ plan.kind = "kJoin" => plan.expressions # <<>> }

\* Projections that make a row with make_row, or a value with a function
\* without metadata, and what reads a field of it.
MetadataProjects ==
  LET values == LpValues(LeftNames)
      k == InputReference("k1")
      c == InputReference("s1")
  IN { LpProject(values, <<k, CallExpr("make_row", <<k, c>>)>>),
       LpProject(values, <<k, CallExpr("make_row", <<c, k>>)>>),
       LpProject(values, <<k, CallExpr("greatest", <<c, k>>)>>) }

MetadataReaders(input) ==
  LET k == InputReference(input.outputNames[1])
      c == InputReference(input.outputNames[2])
  IN { LpFilter(input, CallExpr("gt", <<k, one>>)),
       LpFilter(input, CallExpr("gt", <<Dereference(c, "x"), one>>)),
       LpProject(input, <<k, c>>),
       LpProject(input, <<k, one>>),
       LpAggregate(input, <<k>>, <<AggregateCall(<<c>>, <<>>, <<>>)>>),
       LpSort(input, <<Dereference(c, "y")>>) }
     \cup { LpFilter(input, CallExpr("gt", <<Dereference(Dereference(c, "y"), "z"), one>>)),
            LpFilter(input, CallExpr("gt", <<Dereference(Dereference(c, "x"), "z"), one>>)),
            LpProject(input, <<Dereference(c, "x"), Dereference(c, "x")>>),
            LpProject(input, <<Dereference(c, "y"), Dereference(c, "x")>>) }

MetadataPlans ==
  MetadataProjects \cup UNION { MetadataReaders(input) : input \in MetadataProjects }

MaxMarkings == 2

SubfieldPlans ==
  LeftPlans \cup BinaryPlans
  \cup UNION { UnaryNodes(input) : input \in LeftPlans \ {LpValues(LeftNames)} }
  \cup UNION { UnaryNodes(input) : input \in InnerBinaryPlans }

InitSubfields ==
  /\ EmitIdle
  /\ SearchIdle
  /\ LogicalIdle
  /\ HistoryIdle
  /\ CostIdle
  /\ SubfieldsIdle
  /\ PushdownIdle
  /\ SaverIdle
  /\ StatsIdle
  /\ FiltersIdle

\* ToGraph::markAllSubfields
\* The marking state the next markAllSubfields starts from.
controlMarked ==
  [fields |-> controlSubfields, args |-> marking.controlArgs, steps |-> <<>>, calls |-> 0]
payloadMarked ==
  [fields |-> payloadSubfields, args |-> marking.payloadArgs, steps |-> <<>>, calls |-> 0]

\* ToGraph::markAllSubfields, for the first time or once more for the plan.
MarkAllSubfields(plan) ==
  /\ markedPlan \in {NotMarked, plan}
  /\ marking.calls < MaxMarkings
  /\ LET control == markControl(controlMarked, plan, <<>>)
         payload == markPayload(payloadMarked, plan, 1)
     IN /\ markedPlan' = plan
        /\ controlSubfields' = control.fields
        /\ payloadSubfields' = payload.fields
        /\ marking' = [controlArgs |-> control.args, payloadArgs |-> payload.args,
                       steps |-> payload.steps, calls |-> marking.calls + 1]
  /\ UNCHANGED <<emitVars, searchVars, othersThanSubfields>>

NextSubfields == \E plan \in SubfieldPlans \cup MetadataPlans : MarkAllSubfields(plan)

SpecSubfields == InitSubfields /\ [][NextSubfields]_vars

\* The positions of all nodes of the plan under 'position'.
RECURSIVE NodePositions(_, _)
NodePositions(plan, position) ==
  {position} \cup UNION { NodePositions(plan, Append(position, k)) :
                            k \in 1..Len(NodeAt(plan, position).inputs) }

\* The names of the columns an expr refers to.
RECURSIVE referencedNames(_)
referencedNames(expr) ==
  IF expr.expr = "kInputReference" THEN {expr.name}
  ELSE UNION { referencedNames(expr.inputs[i]) : i \in 1..Len(expr.inputs) }

\* The <<node, ordinal>> that provide the columns the exprs refer to, among
\* the inputs of the node at 'position'.
ProvidersOf(plan, position, exprs) ==
  LET node == NodeAt(plan, position)
      names == UNION { referencedNames(exprs[i]) : i \in 1..Len(exprs) }
      holders(name) == { k \in 1..Len(node.inputs) :
                           getChildIdx(node.inputs[k].outputNames, name) # 0 }
      first(name) == CHOOSE k \in holders(name) : \A j \in holders(name) : k <= j
  IN { <<Append(position, first(name)),
         getChildIdx(node.inputs[first(name)].outputNames, name)>> :
         name \in { name \in names : holders(name) # {} } }

\* The column positions that decide which rows survive: those a join
\* condition, a filter predicate, a grouping key or a sort key refers to, and
\* all columns of the inputs of a set operation other than UNION ALL.
ControlPositions(plan) ==
  UNION { LET node == NodeAt(plan, position)
          IN IF node.kind \in {"kJoin", "kFilter", "kAggregate", "kSort"}
               THEN ProvidersOf(plan, position, node.expressions)
             ELSE IF node.kind = "kSet" /\ node.operation # "kUnionAll"
               THEN { <<Append(position, k), i>> :
                        k \in 1..Len(node.inputs), i \in 1..Len(node.outputNames) }
             ELSE {} : position \in NodePositions(plan, <<>>) }

\* The <<node, ordinal>> of the inputs that the column 'ordinal' of the node
\* at 'position' is derived from.
DerivedFrom(plan, position, ordinal) ==
  LET node == NodeAt(plan, position)
  IN IF node.kind = "kProject"
       THEN ProvidersOf(plan, position, <<node.expressions[ordinal]>>)
     ELSE IF node.kind = "kAggregate"
       THEN ProvidersOf(plan, position, aggregateExprs(node, ordinal))
     ELSE IF node.kind = "kSet"
       THEN { <<Append(position, k), ordinal>> : k \in 1..Len(node.inputs) }
     ELSE ProvidersOf(plan, position, <<InputReference(node.outputNames[ordinal])>>)

\* 'positions' with everything they are derived from.
RECURSIVE WithSources(_, _)
WithSources(plan, positions) ==
  LET more == positions \cup UNION { DerivedFrom(plan, p[1], p[2]) : p \in positions }
  IN IF more = positions THEN positions ELSE WithSources(plan, more)

Recorded(fields) == { <<mark[1], mark[2]>> : mark \in fields }

\* C19: after markAllSubfields(root) every column position that a join
\* condition, a filter predicate, a grouping key, a sort key or a set
\* operation other than UNION ALL refers to is recorded in controlSubfields,
\* for the node that provides it and for the nodes it is derived from, and
\* every output column of the root is in payloadSubfields with the empty path.
C19_ControlAndPayloadMarked ==
  markedPlan \in SubfieldPlans =>
    /\ WithSources(markedPlan, ControlPositions(markedPlan)) \subseteq Recorded(controlSubfields)
    /\ \A i \in 1..Len(markedPlan.outputNames) : <<<<>>, i, <<>>>> \in payloadSubfields

\* A filter on a field of a struct above an intersection of a sorted input
\* and a projection: the control positions reach the leaves of both sides.
C19_Witness ==
  /\ markedPlan # NotMarked
  /\ markedPlan.kind = "kFilter"
  /\ markedPlan.inputs[1].kind = "kSet"
  /\ markedPlan.inputs[1].operation = "kIntersect"
  /\ <<<<1>>, 2, <<Step("kField", "x", FALSE)>>>> \in controlSubfields
  /\ <<<<1, 2, 1>>, 2, <<Step("kField", "y", FALSE)>>>> \in controlSubfields
  /\ <<<<1, 1, 1>>, 1>> \in WithSources(markedPlan, ControlPositions(markedPlan))
  /\ <<<<>>, 2, <<>>>> \in payloadSubfields
  /\ \A mark \in controlSubfields \cup payloadSubfields : mark[2] # 0

\* The position of the projection of a plan of MetadataPlans, and of the
\* Values under it.
ProjectPosition == IF markedPlan \in MetadataProjects THEN <<>> ELSE <<1>>
ValuesPosition == Append(ProjectPosition, 1)

\* The marks that the marks of the output columns of the projection stand
\* for on the columns of its input: a call with a path on its result stands
\* for the empty path on every argument, or with valuePathToArgPath for the
\* rest of the path on the argument that the first getter selects.
ArgumentMarks(fields) ==
  LET project == NodeAt(markedPlan, ProjectPosition)
      column(expr) == getChildIdx(LeftNames, expr.name)
      of(mark) ==
        LET expr == project.expressions[mark[2]]
            path == mark[3]
        IN IF expr.expr = "kInputReference"
             THEN {<<ValuesPosition, column(expr), path>>}
           ELSE IF expr.expr = "kConstant" THEN {}
           ELSE IF expr.name = "make_row" /\ path # <<>>
             THEN {<<ValuesPosition,
                     column(expr.inputs[getChildIdx(RowFields, path[1].field)]),
                     Tail(path)>>}
           ELSE { <<ValuesPosition, column(expr.inputs[i]), <<>>>> :
                    i \in 1..Len(expr.inputs) }
  IN UNION { of(mark) : mark \in { mark \in fields : mark[1] = ProjectPosition } }

\* C24: a path applied to the result of a call without metadata marks every
\* argument with the empty path; applied to the result of a call with
\* valuePathToArgPath it marks the one argument the transform returns, with
\* the translated path, and no other argument.
C24_PathThroughCall ==
  markedPlan \in MetadataPlans =>
    \A fields \in {controlSubfields, payloadSubfields} :
      { mark \in fields : mark[1] = ValuesPosition } = ArgumentMarks(fields)

\* A filter on make_row(k1, s1).y.z: the control path y.z of the row selects
\* s1 with the path z and leaves k1 alone.
C24_Witness ==
  /\ markedPlan \in MetadataPlans
  /\ markedPlan.kind = "kFilter"
  /\ NodeAt(markedPlan, <<1>>).expressions[2] =
       CallExpr("make_row", <<InputReference("k1"), InputReference("s1")>>)
  /\ <<<<1>>, 2, <<Step("kField", "y", FALSE), Step("kField", "z", FALSE)>>>>
       \in controlSubfields
  /\ <<<<1, 1>>, 2, <<Step("kField", "z", FALSE)>>>> \in controlSubfields
  /\ \A mark \in controlSubfields : ~(mark[1] = <<1, 1>> /\ mark[2] = 1)
  /\ <<<<1, 1>>, 1, <<>>>> \in payloadSubfields

\* markFieldAccessed called for a <<node, ordinal, path>> of 'marked.fields'
\* returns at once: nothing is added and nothing else is called.
ReturnsAtOnce(marked) ==
  \A mark \in marked.fields :
    mark[2] # 0 =>
      LET m == [marked EXCEPT !.steps = stepsToPath(mark[3])]
      IN markFieldAccessed(m, markedPlan, mark[1], mark[2]) = [m EXCEPT !.calls = 1]

\* A step of the marking adds to the sets of paths, and adds nothing when
\* the plan was marked before.
MarksGrow ==
  /\ controlSubfields \subseteq controlSubfields'
  /\ payloadSubfields \subseteq payloadSubfields'
  /\ marking.controlArgs \subseteq marking'.controlArgs
  /\ marking.payloadArgs \subseteq marking'.payloadArgs
  /\ markedPlan # NotMarked =>
       /\ controlSubfields' = controlSubfields
       /\ payloadSubfields' = payloadSubfields
       /\ marking'.controlArgs = marking.controlArgs
       /\ marking'.payloadArgs = marking.payloadArgs

\* C27: marking is monotone and idempotent: markFieldAccessed for a recorded
\* <<node, ordinal, path>> changes nothing and calls nothing, the sets of
\* paths only grow, and markAllSubfields called again for the same plan
\* leaves controlSubfields and payloadSubfields as they are.
C27_MarkingIdempotent ==
  /\ [](markedPlan # NotMarked => ReturnsAtOnce(controlMarked) /\ ReturnsAtOnce(payloadMarked))
  /\ [][MarksGrow]_vars

\* A plan whose projection reads the same field of a row twice, marked twice.
C27_Witness ==
  /\ marking.calls = 2
  /\ markedPlan.kind = "kProject"
  /\ markedPlan.expressions[1] = markedPlan.expressions[2]
  /\ markedPlan.expressions[1].expr = "kDereference"
  /\ <<<<1>>, 2, <<Step("kField", "x", FALSE)>>>> \in payloadSubfields
  /\ marking.payloadArgs # {}

\* An expr and the exprs inside it.
RECURSIVE SubExprs(_)
SubExprs(expr) ==
  {expr} \cup UNION { SubExprs(expr.inputs[i]) : i \in 1..Len(expr.inputs) }

\* The exprs of a node that are marked against its inputs.
NodeExprs(node) ==
  { node.expressions[i] : i \in 1..Len(node.expressions) }
  \cup UNION { { aggregateExprs(node, Len(node.expressions) + a)[i] :
                   i \in 1..Len(aggregateExprs(node, Len(node.expressions) + a)) } :
               a \in 1..Len(node.aggregates) }

\* The steps a caller may hold when it calls markSubfields or
\* markFieldAccessed: none, a getter, two getters.
EntrySteps ==
  { <<>>, <<Step("kField", "x", FALSE)>>,
    <<Step("kField", "z", FALSE), Step("kField", "y", FALSE)>> }

\* Marking states to call from: nothing marked yet, and the marks made.
EntryMarks ==
  { [fields |-> {}, args |-> {}, steps |-> <<>>, calls |-> 0],
    controlMarked, payloadMarked }

\* C28: the steps are balanced: a call of markSubfields or markFieldAccessed
\* that returns leaves the steps of its caller as they were on entry, so the
\* checks steps.empty() after the calls of markControl and markAllSubfields
\* hold.
C28_StepsBalanced ==
  markedPlan # NotMarked =>
    /\ marking.steps = <<>>
    /\ \A mark \in controlSubfields \cup payloadSubfields : mark[2] # 0
    /\ \A position \in NodePositions(markedPlan, <<>>), marked \in EntryMarks, steps \in EntrySteps :
         LET node == NodeAt(markedPlan, position)
             m == [marked EXCEPT !.steps = steps]
             inputs == [k \in 1..Len(node.inputs) |-> Append(position, k)]
         IN /\ \A ordinal \in 1..Len(node.outputNames) :
                 markFieldAccessed(m, markedPlan, position, ordinal).steps = steps
            /\ \A top \in NodeExprs(node) : \A expr \in SubExprs(top) :
                 markSubfields(m, markedPlan, expr, inputs).steps = steps

\* A filter on a map read with a key that is a column, above a projection:
\* the key is marked with steps of its own and the map with the subscript.
C28_Witness ==
  /\ markedPlan # NotMarked
  /\ markedPlan.kind = "kFilter"
  /\ markedPlan.inputs[1].kind = "kProject"
  /\ marking.steps = <<>>
  /\ <<<<1>>, 2, <<Step("kSubscript", "", TRUE)>>>> \in controlSubfields
  /\ <<<<1>>, 1, <<>>>> \in controlSubfields
  /\ <<<<1, 1>>, 2, <<Step("kSubscript", "", TRUE)>>>> \in controlSubfields

(***************************************************************************)
(* The scan of a map column that is read as a struct                       *)
(* (optimizer/ToVelox.cpp: isMapAsStruct, skylineStruct,                   *)
(* subfieldPushdownScanType, columnSubfields, pathToGetter).  A step of a  *)
(* path has a kind, a field name ("" for none), an id and allFields.       *)
(***************************************************************************)
PathStep(kind, field, id, allFields) ==
  [kind |-> kind, field |-> field, id |-> id, allFields |-> allFields]

\* The paths of accesses to a map column with keys of 'keyType': subscripts
\* by a literal key, a field of the value under a literal key, a subscript by
\* a key that is no literal, and the column as a whole.
PathsOf(keyType) ==
  LET key1 == IF keyType = "VARCHAR" THEN PathStep("kSubscript", "a", 0, FALSE)
              ELSE PathStep("kSubscript", "", 1, FALSE)
      key2 == IF keyType = "VARCHAR" THEN PathStep("kSubscript", "b", 0, FALSE)
              ELSE PathStep("kSubscript", "", 10, FALSE)
  IN << <<key1>>, <<key2>>, <<key1, PathStep("kField", "x", 0, FALSE)>>,
        <<PathStep("kSubscript", "", 0, TRUE)>>, <<>> >>

\* What reading the first step of a path without steps can give.
StaleSteps == {PathStep("kSubscript", "", 0, FALSE), PathStep("kSubscript", "a", 0, FALSE)}

\* Optimization::isMapAsStruct: the column is listed in opts_.mapAsStruct.
isMapAsStruct(column) == column.mapAsStruct

\* The name of the struct field of a step: step.field, or step.id formatted.
topFieldName(step) == IF step.field # "" THEN step.field ELSE ToString(step.id)

\* addTopFields of skylineStruct over the paths in the order of their ids.
RECURSIVE addTopFields(_, _, _)
addTopFields(names, paths, stale) ==
  IF paths = <<>> THEN names
  ELSE LET first == IF Head(paths) = <<>> THEN stale ELSE Head(paths)[1]
           name == topFieldName(first)
       IN addTopFields(IF \E i \in 1..Len(names) : names[i] = name
                         THEN names ELSE Append(names, name),
                       Tail(paths), stale)

\* skylineStruct: the names of the fields of the struct.
skylineStruct(column, stale) ==
  LET inOrder(paths) == SelectSeq(column.pathIds, LAMBDA path : path \in paths)
  IN addTopFields(addTopFields(<<>>, inOrder(column.control), stale),
                  inOrder(column.payload), stale)

\* subfieldPushdownScanType for the top column of the pushed down subfields.
subfieldPushdownScanType(column, stale) ==
  IF isMapAsStruct(column)
    THEN [kind |-> "ROW", names |-> skylineStruct(column, stale)]
  ELSE [kind |-> "MAP", names |-> <<>>]

\* The elements columnSubfields makes of the steps of one path.
subfieldElements(column, path) ==
  <<[element |-> "NestedField", name |-> column.name, id |-> 0]>>
  \o [i \in 1..Len(path) |->
        LET step == path[i]
        IN IF step.kind = "kField"
             THEN [element |-> "NestedField", name |-> step.field, id |-> 0]
           ELSE IF step.kind = "kSubscript" /\ step.allFields
             THEN [element |-> "AllSubscripts", name |-> "", id |-> 0]
           ELSE IF step.kind = "kSubscript" /\ i = 1 /\ isMapAsStruct(column)
             THEN [element |-> "NestedField", name |-> topFieldName(step), id |-> 0]
           ELSE IF step.kind = "kSubscript" /\ step.field # ""
             THEN [element |-> "StringSubscript", name |-> step.field, id |-> 0]
           ELSE [element |-> "LongSubscript", name |-> "", id |-> step.id]]

\* columnSubfields: the subfields of every live path of the column.
columnSubfields(column) ==
  { [path |-> path, elements |-> subfieldElements(column, path)] :
      path \in column.control \cup column.payload }

\* Optimization::pathToGetter: the steps of the getters over the column.
pathToGetter(column, path) ==
  [i \in 1..Len(path) |->
     IF i = 1 /\ isMapAsStruct(column)
       THEN PathStep("kField", topFieldName(path[i]), 0, FALSE)
     ELSE path[i]]

KeyTypes == {"VARCHAR", "BIGINT"}
Reversed(seq) == [i \in 1..Len(seq) |-> seq[Len(seq) + 1 - i]]

InitPushdown ==
  /\ EmitIdle
  /\ SearchIdle
  /\ LogicalIdle
  /\ HistoryIdle
  /\ CostIdle
  /\ SubfieldsIdle
  /\ PushdownIdle
  /\ SaverIdle
  /\ StatsIdle
  /\ FiltersIdle

\* The scan of a map column with live paths: its type in the scan, its
\* subfields and the getters of the projection above the scan.
MakeScan(mapAsStruct, keyType, control, payload, pathIds, stale) ==
  /\ scanColumn = NotScanned
  /\ control \cup payload # {}
  /\ LET column == [made |-> TRUE, name |-> "m", mapAsStruct |-> mapAsStruct,
                    control |-> control, payload |-> payload, pathIds |-> pathIds]
     IN /\ scanColumn' = column
        /\ scanResult' =
             [made |-> TRUE,
              type |-> subfieldPushdownScanType(column, stale),
              subfields |-> columnSubfields(column),
              getters |-> { [path |-> path, steps |-> pathToGetter(column, path)] :
                              path \in control \cup payload }]
  /\ UNCHANGED <<emitVars, searchVars, othersThanPushdown>>

NextPushdown ==
  \E mapAsStruct \in BOOLEAN, keyType \in KeyTypes, stale \in StaleSteps :
    \E control \in SUBSET Range(PathsOf(keyType)),
       payload \in SUBSET Range(PathsOf(keyType)),
       pathIds \in {PathsOf(keyType), Reversed(PathsOf(keyType))} :
      MakeScan(mapAsStruct, keyType, control, payload, pathIds, stale)

SpecPushdown == InitPushdown /\ [][NextPushdown]_vars

LivePaths == scanColumn.control \cup scanColumn.payload
LiteralFirst(path) ==
  path # <<>> /\ path[1].kind = "kSubscript" /\ ~path[1].allFields
LiveKeys == { topFieldName(path[1]) : path \in LivePaths }

\* C20: a map column is scanned as a struct only if every live path on it
\* starts with a subscript by a literal key; the struct then has one field
\* per distinct live key, named by the string key or the integer key in
\* decimal, and the getters and the subfields use these names.  A map column
\* accessed as a whole or with a key that is no literal is not converted.
C20_MapAsStruct ==
  (scanResult.made /\ scanResult.type.kind = "ROW") =>
    /\ \A path \in LivePaths : LiteralFirst(path)
    /\ Range(scanResult.type.names) = LiveKeys
    /\ Len(scanResult.type.names) = Cardinality(LiveKeys)
    /\ \A getter \in scanResult.getters :
         getter.steps[1] = PathStep("kField", topFieldName(getter.path[1]), 0, FALSE)
    /\ \A subfield \in scanResult.subfields :
         subfield.elements[2] =
           [element |-> "NestedField", name |-> topFieldName(subfield.path[1]), id |-> 0]

====
